---- MODULE Spec2Model ----
(***************************************************************************)
(* Bill Extraction API: the validation / cross-page deduplication core     *)
(* (services/validator.py, services/data_validator.py) and the endpoint    *)
(* that reconciles its output (main.py, process_invoice_request).          *)
(*                                                                         *)
(* Representation.                                                         *)
(*  - A Python str is a sequence of one-character strings.                 *)
(*  - A Python float is an integer number of thousandths (10.5 is 10500),  *)
(*    so sums, differences and comparisons are exact decimal arithmetic.   *)
(*  - A JSON value is a record [t, s, n]: t is its Python type, s its text *)
(*    (t = "str"), n its number (t = "float": thousandths, t = "int": the  *)
(*    integer, t = "bool": 1 for True and 0 for False).  t = "absent"      *)
(*    stands for a key the dict does not hold.                             *)
(*  - The floats inf, -inf and nan are the integers Infinity, -Infinity    *)
(*    and NaN, which no finite amount of the model reaches; no arithmetic  *)
(*    is applied to them.                                                  *)
(***************************************************************************)
EXTENDS Integers, Sequences, FiniteSets, TLC

VARIABLES
    caller,                \* who runs the core: "endpoint" (main.py) or "direct"
    llm_pages,             \* llm_output["pagewise_line_items"], the raw pages
    pc,                    \* position of the request
    validated_pages,       \* validate_and_deduplicate: validated_pages
    seen_items,            \* _deduplicate_items: seen_items
    deduplicated_pages,    \* _deduplicate_items: deduplicated_pages
    clean_data,            \* main.py: clean_data, the list the core returned
    item_count_total,      \* main.py: item_count_total
    calculated_total_sum,  \* main.py: calculated_total_sum (thousandths)
    fn_in,                 \* argument of a single call of one core function
    fn_out,                \* what that call returned
    token_usage,           \* extractor.py: parsing_service.token_usage
    extraction             \* the frames of the calls of extract_bill_data

vars == <<caller, llm_pages, pc, validated_pages, seen_items, deduplicated_pages,
          clean_data, item_count_total, calculated_total_sum, fn_in, fn_out,
          token_usage, extraction>>

-----------------------------------------------------------------------------
(* JSON values                                                             *)

Absent == [t |-> "absent", s |-> <<>>, n |-> 0]
None == [t |-> "none", s |-> <<>>, n |-> 0]
StrVal(chars) == [t |-> "str", s |-> chars, n |-> 0]
FloatVal(thousandths) == [t |-> "float", s |-> <<>>, n |-> thousandths]
IntVal(i) == [t |-> "int", s |-> <<>>, n |-> i]
BoolVal(b) == [t |-> "bool", s |-> <<>>, n |-> IF b THEN 1 ELSE 0]

\* a lookup without a default
GetPresent(v, default) == v

\* d.get(key, default): the default only when the key is absent; a key that
\* is present with null keeps its None.
Get(v, default) == IF v.t = "absent" THEN default ELSE v

-----------------------------------------------------------------------------
(* Python str methods                                                      *)

Whitespace == {" ", "\t", "\n"}

UpperCase == <<"A","B","C","D","E","F","G","H","I","J","K","L","M",
               "N","O","P","Q","R","S","T","U","V","W","X","Y","Z">>
LowerCase == <<"a","b","c","d","e","f","g","h","i","j","k","l","m",
               "n","o","p","q","r","s","t","u","v","w","x","y","z">>

LowerChar(c) ==
    IF \E i \in 1..Len(UpperCase) : UpperCase[i] = c
    THEN LowerCase[CHOOSE i \in 1..Len(UpperCase) : UpperCase[i] = c]
    ELSE c

\* str.lower()
Lower(s) == [i \in 1..Len(s) |-> LowerChar(s[i])]

\* str.strip(): drops leading and trailing whitespace only
Strip(s) ==
    LET keep == {i \in 1..Len(s) : s[i] \notin Whitespace}
    IN  IF keep = {} THEN <<>>
        ELSE LET lo == CHOOSE i \in keep : \A j \in keep : i <= j
                 hi == CHOOSE i \in keep : \A j \in keep : j <= i
             IN  SubSeq(s, lo, hi)

\* s[i:] starts with kw
StartsAt(s, kw, i) ==
    /\ i + Len(kw) - 1 <= Len(s)
    /\ \A k \in 1..Len(kw) : s[i + k - 1] = kw[k]

\* kw in s
Contains(s, kw) == \E i \in 1..(Len(s) + 1) : StartsAt(s, kw, i)

RECURSIVE ReplaceFrom(_, _, _)
ReplaceFrom(s, kw, i) ==
    IF i > Len(s) THEN <<>>
    ELSE IF StartsAt(s, kw, i) THEN ReplaceFrom(s, kw, i + Len(kw))
    ELSE <<s[i]>> \o ReplaceFrom(s, kw, i + 1)

\* s.replace(kw, ""): every non-overlapping occurrence, left to right
\* (kw is never empty here)
Replace(s, kw) == ReplaceFrom(s, kw, 1)

\* set(s.split()): the maximal runs of non-whitespace characters
Words(s) ==
    {SubSeq(s, i, j) : <<i, j>> \in
        {p \in (1..Len(s)) \X (1..Len(s)) :
            /\ p[1] <= p[2]
            /\ \A k \in p[1]..p[2] : s[k] \notin Whitespace
            /\ (p[1] = 1 \/ s[p[1] - 1] \in Whitespace)
            /\ (p[2] = Len(s) \/ s[p[2] + 1] \in Whitespace)}}

-----------------------------------------------------------------------------
(* Python conversions: str(x) and float(x)                                 *)

Digit == <<"0","1","2","3","4","5","6","7","8","9">>

IsDigit(c) == \E d \in 1..10 : Digit[d] = c
DigitValue(c) == (CHOOSE d \in 1..10 : Digit[d] = c) - 1

RECURSIVE NatText(_)
NatText(k) == IF k < 10 THEN <<Digit[k + 1]>>
              ELSE NatText(k \div 10) \o <<Digit[(k % 10) + 1]>>

\* the shortest decimal text of a number of thousandths: 10500 is "10.5",
\* 20000 is "20.0", 21004 is "21.004"
FloatText(n) ==
    LET a == IF n < 0 THEN 0 - n ELSE n
        f == a % 1000
        frac == IF f % 100 = 0 THEN <<Digit[(f \div 100) + 1]>>
                ELSE IF f % 10 = 0
                     THEN <<Digit[(f \div 100) + 1], Digit[((f \div 10) % 10) + 1]>>
                ELSE <<Digit[(f \div 100) + 1], Digit[((f \div 10) % 10) + 1],
                       Digit[(f % 10) + 1]>>
    IN  (IF n < 0 THEN <<"-">> ELSE <<>>) \o NatText(a \div 1000) \o <<".">> \o frac

\* str(x)
PyStr(v) ==
    CASE v.t = "str" -> v.s
      [] v.t = "none" -> <<"N","o","n","e">>
      [] v.t = "int" -> (IF v.n < 0 THEN <<"-">> \o NatText(0 - v.n) ELSE NatText(v.n))
      [] v.t = "float" -> FloatText(v.n)
      [] v.t = "bool" -> (IF v.n = 1 THEN <<"T","r","u","e">> ELSE <<"F","a","l","s","e">>)
      [] OTHER -> <<>>

RECURSIVE DigitsValue(_)
DigitsValue(ds) == IF ds = <<>> THEN 0
                   ELSE 10 * DigitsValue(SubSeq(ds, 1, Len(ds) - 1)) + DigitValue(ds[Len(ds)])

ValueError == [ok |-> FALSE, n |-> 0]

\* float("inf") and float("nan")
Infinity == 2000000000
NaN == 2100000000

\* math.isfinite(x)
IsFinite(x) == x \notin {Infinity, 0 - Infinity, NaN}

\* the digits before and after the point; digits after the third decimal
\* are below the resolution of the model
ParseDigits(ip, fp) ==
    IF Len(ip) + Len(fp) = 0 THEN ValueError
    ELSE IF \E c \in {ip[i] : i \in 1..Len(ip)} \cup {fp[i] : i \in 1..Len(fp)} : ~IsDigit(c)
         THEN ValueError
    ELSE [ok |-> TRUE,
          n |-> DigitsValue(ip \o [i \in 1..3 |-> IF i <= Len(fp) THEN fp[i] ELSE "0"])]

\* where the first point is, or one past the end
PointAt(u, dots) == IF dots = {} THEN Len(u) + 1
                    ELSE CHOOSE i \in dots : \A j \in dots : i <= j

SplitAt(u, dot) == ParseDigits(SubSeq(u, 1, dot - 1), SubSeq(u, dot + 1, Len(u)))

\* the text after the sign: one of the names float() knows, in any case, or
\* digits
ParseUnsigned(u) ==
    IF Lower(u) \in {<<"i","n","f">>, <<"i","n","f","i","n","i","t","y">>}
    THEN [ok |-> TRUE, n |-> Infinity]
    ELSE IF Lower(u) = <<"n","a","n">> THEN [ok |-> TRUE, n |-> NaN]
    ELSE SplitAt(u, PointAt(u, {i \in 1..Len(u) : u[i] = "."}))

Signed(sign, f) ==
    IF sign = "-" /\ f.n # NaN THEN [ok |-> f.ok, n |-> 0 - f.n] ELSE f

ParseSigned(s) ==
    IF s = <<>> THEN ValueError
    ELSE Signed(s[1], ParseUnsigned(IF s[1] \in {"-", "+"} THEN Tail(s) ELSE s))

\* float(text), for decimal text: surrounding whitespace is ignored, then an
\* optional sign, and inf, infinity, nan or digits with an optional point;
\* anything else is a ValueError.  (Exponents and underscores between
\* digits, which float() also reads, are not among the texts the model
\* draws.)
ParseFloat(text) == ParseSigned(Strip(text))

\* float(x): a float or an int converts, text is parsed (ValueError when it
\* is not a number), None raises TypeError.  ok = FALSE stands for either
\* exception.
PyFloat(v) ==
    CASE v.t = "float" -> [ok |-> TRUE, n |-> v.n]
      [] v.t = "int" -> [ok |-> TRUE, n |-> 1000 * v.n]
      [] v.t = "bool" -> [ok |-> TRUE, n |-> 1000 * v.n]
      [] v.t = "str" -> ParseFloat(v.s)
      [] OTHER -> ValueError

-----------------------------------------------------------------------------
(* Texts                                                                   *)

ParacetamolTablet == <<"P","a","r","a","c","e","t","a","m","o","l"," ","T","a","b","l","e","t">>
ParacetamolTab == <<"P","a","r","a","c","e","t","a","m","o","l"," ","T","a","b">>
TabParacetamol == <<"t","a","b"," ","p","a","r","a","c","e","t","a","m","o","l">>
ParacetamolCaps == <<" ","P","A","R","A","C","E","T","A","M","O","L"," ">>
Paracetamol == <<"P","a","r","a","c","e","t","a","m","o","l">>
TotalKneeReplacement ==
    <<"T","o","t","a","l"," ","K","n","e","e"," ","R","e","p","l","a","c","e","m","e","n","t">>
AntibioticsTotalCourse ==
    <<"A","n","t","i","b","i","o","t","i","c","s"," ","T","o","t","a","l"," ","C","o","u","r","s","e">>
GrandTotal == <<"G","r","a","n","d"," ","T","o","t","a","l">>
SubTotalEq == <<"S","u","b","-","T","o","t","a","l"," ","=">>
TotalColon == <<"T","o","t","a","l",":">>
NotANumber == <<"n","o","t","-","a","-","n","u","m","b","e","r">>
BillDetail == <<"B","i","l","l"," ","D","e","t","a","i","l">>
ThreeWords == <<"i","v"," ","s","e","t"," ","2","0">>
FourWordsRepeated == <<"i","v"," ","s","e","t"," ","2","0"," ","m","l"," ","m","l">>
FourWordsSpaced == <<"I","v"," "," ","s","e","t","\t","2","0"," ","m","l">>
FiveWordsOther == <<"i","v"," ","s","e","t"," ","2","0"," ","m","l"," ","q","d">>
SubtotalText == <<"s","u","b","t","o","t","a","l">>
TotalAmountText == <<"T","o","t","a","l"," ","A","m","o","u","n","t">>
SumTotal == <<"s","u","m"," ","t","o","t","a","l">>
SixTotals ==
    <<"t","o","t","a","l","t","o","t","a","l","t","o","t","a","l","t","o","t","a","l","t","o","t","a","l","t","o","t","a","l">>
TotalDashTotal == <<"t","o","t","a","l","-","t","o","t","a","l">>
DashBalance == <<"-"," ","B","a","l","a","n","c","e">>
NetAmountDue == <<"N","e","t"," ","A","m","o","u","n","t"," ","D","u","e">>
FiveTotalsColon ==
    <<"t","o","t","a","l","t","o","t","a","l","t","o","t","a","l","t","o","t","a","l","t","o","t","a","l"," "," "," "," ",":">>
FourWords == <<"i","v"," ","s","e","t"," ","2","0"," ","m","l">>
FiveWords == <<"i","v"," ","s","e","t"," ","2","0"," ","m","l"," ","b","d">>
SixWords == <<"i","v"," ","s","e","t"," ","2","0"," ","m","l"," ","b","d"," ","x">>
FiveWordsReordered == <<"b","d"," ","m","l"," ","2","0"," ","s","e","t"," ","i","v">>
FiveWordsShouted == <<" ","I","V"," ","S","E","T"," ","2","0"," ","M","L"," ","B","D"," ">>
FinalPharmacyBill == <<"F","i","n","a","l"," ","p","h","a","r","m","a","c","y"," ","b","i","l","l">>
FinalBillShouted == <<"F","I","N","A","L"," ","b","i","l","l"," ">>
PharmacyShouted == <<"P","H","A","R","M","A","C","Y">>
PaddedIvSet == <<" "," ","I","V"," ","S","e","t","\t">>
TrimmedIvSet == <<"I","V"," ","S","e","t">>
IvSet == <<"i","v"," ","s","e","t">>
MinusInfinityText == <<"-","I","n","f","i","n","i","t","y">>
InfText == <<"i","n","f">>
PaddedNaNText == <<" ","N","a","N"," ">>
MinusSeven == <<"-","7">>
PaddedX == <<" ","x"," ">>
PaddedSum == <<" ","s","u","m"," ">>
Blanks == <<" "," "," ">>
FinalBill == <<"F","i","n","a","l"," ","B","i","l","l">>
Pharmacy == <<"P","h","a","r","m","a","c","y">>

-----------------------------------------------------------------------------
(* services/validator.py: class ValidationEngine                           *)

\* self.similarity_threshold = 0.8, kept as the fraction 4/5
similarity_threshold == [num |-> 4, den |-> 5]

total_keywords ==
    << <<"t","o","t","a","l">>,
       <<"s","u","b","t","o","t","a","l">>,
       <<"s","u","b","-","t","o","t","a","l">>,
       <<"g","r","a","n","d"," ","t","o","t","a","l">>,
       <<"f","i","n","a","l"," ","t","o","t","a","l">>,
       <<"n","e","t"," ","a","m","o","u","n","t">>,
       <<"a","m","o","u","n","t"," ","d","u","e">>,
       <<"b","a","l","a","n","c","e">>,
       <<"s","u","m">>,
       <<"t","o","t","a","l"," ","a","m","o","u","n","t">>,
       <<"f","i","n","a","l"," ","a","m","o","u","n","t">> >>

\* the residues that still count as "just the keyword"
total_residues == {<<>>, <<"-">>, <<":">>, <<"=">>}

\* a keyword test that stops at "keyword in item_lower"
KeywordContained(item_lower, keyword) == Contains(item_lower, keyword)

\* the body of the keyword loop: the three tests on one keyword
KeywordMatches(item_lower, keyword) ==
    /\ Contains(item_lower, keyword)
    /\ Len(item_lower) < 30
    /\ Strip(Replace(item_lower, keyword)) \in total_residues

\* the keywords that occur in the name, by their place in the list
ContainedKeywords(item_lower) ==
    {k \in 1..Len(total_keywords) : Contains(item_lower, total_keywords[k])}

\* the least of a set of places
First(places) == CHOOSE k \in places : \A other \in places : k <= other

\* a loop that returns at the first keyword that occurs in the name
FirstContainedDecides(item_lower, contained) ==
    /\ contained # {}
    /\ KeywordMatches(item_lower, total_keywords[First(contained)])

FirstContainedKeywordMatches(item_lower) ==
    FirstContainedDecides(item_lower, ContainedKeywords(item_lower))

\* the loop returns True at the first keyword that passes all three tests and
\* goes on to the next keyword otherwise
AnyKeywordMatches(item_lower) ==
    \E k \in 1..Len(total_keywords) : KeywordMatches(item_lower, total_keywords[k])

_is_total_or_subtotal(item_name) == AnyKeywordMatches(Strip(Lower(item_name)))

\* page_type.lower() exists only on a str: anything else is an AttributeError
NormalizeRaises(page_type) == page_type.t # "str"

\* a normalization that looks for "final" first
PageTypeOfFinalFirst(page_type_lower) ==
    IF Contains(page_type_lower, <<"f","i","n","a","l">>)
    THEN <<"F","i","n","a","l"," ","B","i","l","l">>
    ELSE IF Contains(page_type_lower, <<"p","h","a","r","m","a","c","y">>)
    THEN <<"P","h","a","r","m","a","c","y">>
    ELSE BillDetail

PageTypeOf(page_type_lower) ==
    IF Contains(page_type_lower, <<"p","h","a","r","m","a","c","y">>)
    THEN <<"P","h","a","r","m","a","c","y">>
    ELSE IF Contains(page_type_lower, <<"f","i","n","a","l">>)
    THEN <<"F","i","n","a","l"," ","B","i","l","l">>
    ELSE BillDetail

_normalize_page_type(page_type) == PageTypeOf(Strip(Lower(page_type.s)))

NoItem == [item_name |-> <<>>, item_amount |-> 0, item_rate |-> 0, item_quantity |-> 0]

\* r = "item": the validated dict; r = "none": return None; r = "raise": an
\* exception leaves the function (item.get on something that is no dict)
ReturnNone == [r |-> "none", item |-> NoItem]

\* conversions that fall back to 0.0 on a value float() refuses
CoercedDefaulting(item_name, item_amount, item_rate, item_quantity) ==
    [r |-> "item",
     item |-> [item_name |-> item_name,
               item_amount |-> IF item_amount.ok THEN item_amount.n ELSE 0,
               item_rate |-> IF item_rate.ok THEN item_rate.n ELSE 0,
               item_quantity |-> IF item_quantity.ok THEN item_quantity.n ELSE 0]]

\* conversions that take the numbers as hundredths and return whole units
CoercedInHundreds(item_name, item_amount, item_rate, item_quantity) ==
    IF ~(item_amount.ok /\ item_rate.ok /\ item_quantity.ok) THEN ReturnNone
    ELSE [r |-> "item",
          item |-> [item_name |-> item_name, item_amount |-> item_amount.n \div 100,
                    item_rate |-> item_rate.n \div 100,
                    item_quantity |-> item_quantity.n \div 100]]

\* the try block: the three conversions, and the dict returned
Coerced(item_name, item_amount, item_rate, item_quantity) ==
    IF ~(item_amount.ok /\ item_rate.ok /\ item_quantity.ok) THEN ReturnNone
    ELSE [r |-> "item",
          item |-> [item_name |-> item_name, item_amount |-> item_amount.n,
                    item_rate |-> item_rate.n, item_quantity |-> item_quantity.n]]

\* a validator without the test on the length of the name
ValidateNamedAnyLength(item_name, item) ==
    IF _is_total_or_subtotal(item_name) THEN ReturnNone
    ELSE Coerced(item_name,
                 PyFloat(Get(item.item_amount, FloatVal(0))),
                 PyFloat(Get(item.item_rate, FloatVal(0))),
                 PyFloat(Get(item.item_quantity, FloatVal(0))))

\* _validate_item once item_name is stripped
ValidateNamed(item_name, item) ==
    IF item_name = <<>> \/ Len(item_name) < 2 THEN ReturnNone
    ELSE IF _is_total_or_subtotal(item_name) THEN ReturnNone
    ELSE Coerced(item_name,
                 PyFloat(Get(item.item_amount, FloatVal(0))),
                 PyFloat(Get(item.item_rate, FloatVal(0))),
                 PyFloat(Get(item.item_quantity, FloatVal(0))))

_validate_item(item) ==
    IF item.t # "dict" THEN [r |-> "raise", item |-> NoItem]
    ELSE ValidateNamed(Strip(PyStr(Get(item.item_name, StrVal(<<>>)))), item)

\* "if validated_item: append", in front of the items validated after it
ConsValidated(validated_item, rest) ==
    IF validated_item.r = "raise" \/ rest.raised THEN [raised |-> TRUE, items |-> <<>>]
    ELSE IF validated_item.r = "item"
    THEN [raised |-> FALSE, items |-> <<validated_item.item>> \o rest.items]
    ELSE rest

\* the loop of _validate_page over bill_items, from item i on
RECURSIVE ValidateItems(_, _)
ValidateItems(bill_items, i) ==
    IF i > Len(bill_items) THEN [raised |-> FALSE, items |-> <<>>]
    ELSE ConsValidated(_validate_item(bill_items[i]), ValidateItems(bill_items, i + 1))

NoPage == [page_no |-> <<>>, page_type |-> <<>>, bill_items |-> <<>>]

\* the page _validate_page builds from what page.get gave it
ValidatedPage(page_no, page_type, bill_items, items) ==
    IF NormalizeRaises(page_type) \/ bill_items.t = "none" \/ items.raised
    THEN [raised |-> TRUE, page |-> NoPage]
    ELSE [raised |-> FALSE,
          page |-> [page_no |-> PyStr(page_no),
                    page_type |-> _normalize_page_type(page_type),
                    bill_items |-> items.items]]

\* raised: page.get on something that is no dict, page_type.lower() on
\* something that is no str, the for loop over a bill_items that is None, or
\* an exception out of _validate_item
_validate_page(page) ==
    IF page.t # "dict" THEN [raised |-> TRUE, page |-> NoPage]
    ELSE ValidatedPage(
             Get(page.page_no, StrVal(<<"1">>)),
             Get(page.page_type, StrVal(BillDetail)),
             page.bill_items,
             ValidateItems(IF page.bill_items.t = "list" THEN page.bill_items.items
                           ELSE <<>>, 1))

\* the shared words over the words of the shorter name
JaccardOverSmaller(words1, words2) ==
    IF words1 = {} \/ words2 = {} THEN [num |-> 0, den |-> 1]
    ELSE [num |-> Cardinality(words1 \cap words2),
          den |-> IF Cardinality(words1) <= Cardinality(words2)
                  THEN Cardinality(words1) ELSE Cardinality(words2)]

\* intersection / union, as a fraction num/den
Jaccard(words1, words2) ==
    IF words1 = {} \/ words2 = {} THEN [num |-> 0, den |-> 1]
    ELSE IF Cardinality(words1 \cup words2) = 0 THEN [num |-> 0, den |-> 1]
    ELSE [num |-> Cardinality(words1 \cap words2), den |-> Cardinality(words1 \cup words2)]

_calculate_name_similarity(name1, name2) == Jaccard(Words(name1), Words(name2))

Abs(x) == IF x < 0 THEN 0 - x ELSE x
Max(x, y) == IF x >= y THEN x ELSE y

\* a threshold of 0.3
AboveLowThreshold(name_similarity) == 10 * name_similarity.num > 3 * name_similarity.den

\* name_similarity >= self.similarity_threshold
AtOrAboveThreshold(name_similarity) ==
    name_similarity.num * similarity_threshold.den
        >= similarity_threshold.num * name_similarity.den

\* name_similarity > self.similarity_threshold
AboveThreshold(name_similarity) ==
    name_similarity.num * similarity_threshold.den
        > similarity_threshold.num * name_similarity.den

\* amounts are thousandths: 0.01 is 10, and d / m < 0.05 is 100 * d < 5 * m
AmountsClose(amount_diff, amount1) ==
    \/ amount_diff < 10
    \/ 100 * amount_diff < 5 * Max(Abs(amount1), 10)

\* a comparison without the exact-name return: the similarity and the
\* amounts decide in every case
DuplicateNamedByAmount(name1, name2, amount1, amount2) ==
    IF AboveThreshold(_calculate_name_similarity(name1, name2))
    THEN AmountsClose(Abs(amount1 - amount2), amount1)
    ELSE FALSE

\* _are_items_duplicate once both names are lower-cased and stripped
DuplicateNamed(name1, name2, amount1, amount2) ==
    IF name1 = name2 THEN TRUE
    ELSE IF AboveThreshold(_calculate_name_similarity(name1, name2))
    THEN AmountsClose(Abs(amount1 - amount2), amount1)
    ELSE FALSE

_are_items_duplicate(item1, item2) ==
    DuplicateNamed(Strip(Lower(item1.item_name)), Strip(Lower(item2.item_name)),
                   item1.item_amount, item2.item_amount)

\* a scan that looks at the item seen last only
IsDuplicateOfLast(item, seen) ==
    seen # <<>> /\ _are_items_duplicate(item, seen[Len(seen)])

\* a scan that passes the seen item first and the scanned item second
IsDuplicateSwapped(item, seen) ==
    \E k \in 1..Len(seen) : _are_items_duplicate(seen[k], item)

\* the scan of seen_items for one item
IsDuplicate(item, seen) == \E k \in 1..Len(seen) : _are_items_duplicate(item, seen[k])

\* item.copy() with the page_no tag
WithPage(item, page_no) ==
    [item_name |-> item.item_name, item_amount |-> item.item_amount,
     item_rate |-> item.item_rate, item_quantity |-> item.item_quantity,
     page_no |-> page_no]

\* the item kept, in front of the items kept after it
ConsKept(item, rest) == [bill_items |-> <<item>> \o rest.bill_items, seen |-> rest.seen]

\* the items seen on one page
SeenOn(page_no, seen) ==
    SelectSeq(seen, LAMBDA seen_item : seen_item.page_no = page_no)

\* a deduplicator that compares an item with the items of its own page only
RECURSIVE DedupItemsWithinPage(_, _, _, _)
DedupItemsWithinPage(bill_items, page_no, seen, i) ==
    IF i > Len(bill_items) THEN [bill_items |-> <<>>, seen |-> seen]
    ELSE IF IsDuplicate(bill_items[i], SeenOn(page_no, seen))
    THEN DedupItemsWithinPage(bill_items, page_no, seen, i + 1)
    ELSE ConsKept(bill_items[i],
             DedupItemsWithinPage(bill_items, page_no,
                 Append(seen, WithPage(bill_items[i], page_no)), i + 1))

\* a deduplicator that also remembers the items it discards
RECURSIVE DedupItemsSeeingDiscarded(_, _, _, _)
DedupItemsSeeingDiscarded(bill_items, page_no, seen, i) ==
    IF i > Len(bill_items) THEN [bill_items |-> <<>>, seen |-> seen]
    ELSE IF IsDuplicate(bill_items[i], seen)
    THEN DedupItemsSeeingDiscarded(bill_items, page_no,
             Append(seen, WithPage(bill_items[i], page_no)), i + 1)
    ELSE ConsKept(bill_items[i],
             DedupItemsSeeingDiscarded(bill_items, page_no,
                 Append(seen, WithPage(bill_items[i], page_no)), i + 1))

\* a deduplicator that tags the item itself (item_with_page = item, no copy),
\* so that the item it keeps carries the tag
RECURSIVE DedupItemsTaggingKept(_, _, _, _)
DedupItemsTaggingKept(bill_items, page_no, seen, i) ==
    IF i > Len(bill_items) THEN [bill_items |-> <<>>, seen |-> seen]
    ELSE IF IsDuplicate(bill_items[i], seen)
    THEN DedupItemsTaggingKept(bill_items, page_no, seen, i + 1)
    ELSE ConsKept(WithPage(bill_items[i], page_no),
             DedupItemsTaggingKept(bill_items, page_no,
                 Append(seen, WithPage(bill_items[i], page_no)), i + 1))

\* the inner loop of _deduplicate_items over one page's items, from item i on,
\* with the seen_items accumulated so far
RECURSIVE DedupItems(_, _, _, _)
DedupItems(bill_items, page_no, seen, i) ==
    IF i > Len(bill_items) THEN [bill_items |-> <<>>, seen |-> seen]
    ELSE IF IsDuplicate(bill_items[i], seen)
    THEN DedupItems(bill_items, page_no, seen, i + 1)
    ELSE ConsKept(bill_items[i],
             DedupItems(bill_items, page_no,
                        Append(seen, WithPage(bill_items[i], page_no)), i + 1))

\* an output page that takes the default page number
DeduplicatedPageRenumbered(page, bill_items) ==
    [page_no |-> <<"1">>, page_type |-> page.page_type, bill_items |-> bill_items]

\* deduplicated_page = {"page_no": ..., "page_type": ..., "bill_items": [...]}
DeduplicatedPage(page, bill_items) ==
    [page_no |-> page.page_no, page_type |-> page.page_type, bill_items |-> bill_items]

\* deduplicated_pages.append(deduplicated_page), in front of the later pages
ConsPage(page, rest) == [pages |-> <<page>> \o rest.pages, seen |-> rest.seen]

RECURSIVE DedupPages(_, _, _)

\* one pass of "for page in pages", given what its inner loop kept
DedupPage(pages, p, kept) ==
    ConsPage(DeduplicatedPage(pages[p], kept.bill_items), DedupPages(pages, p + 1, kept.seen))

\* _deduplicate_items: the loop over the pages from page p on, with the
\* seen_items accumulated so far; seen is the list as the loop leaves it
DedupPages(pages, p, seen) ==
    IF p > Len(pages) THEN [pages |-> <<>>, seen |-> seen]
    ELSE DedupPage(pages, p, DedupItems(pages[p].bill_items, pages[p].page_no, seen, 1))

_deduplicate_items(pages) == DedupPages(pages, 1, <<>>)

\* validated_pages.append(validated_page), in front of the later pages
ConsValidatedPage(validated_page, rest) ==
    IF validated_page.raised \/ rest.raised THEN [raised |-> TRUE, pages |-> <<>>]
    ELSE [raised |-> FALSE, pages |-> <<validated_page.page>> \o rest.pages]

\* the loop of validate_and_deduplicate over the raw pages, from page p on
RECURSIVE ValidatePages(_, _)
ValidatePages(pagewise_line_items, p) ==
    IF p > Len(pagewise_line_items) THEN [raised |-> FALSE, pages |-> <<>>]
    ELSE ConsValidatedPage(_validate_page(pagewise_line_items[p]),
                           ValidatePages(pagewise_line_items, p + 1))

\* what a call of the core leaves: whether it raised, its locals, and the
\* list it returns (deduplicated_pages)
Raised == [raised |-> TRUE, validated_pages |-> <<>>, seen_items |-> <<>>,
           deduplicated_pages |-> <<>>]

Deduplicated(validated, deduplicated) ==
    [raised |-> FALSE, validated_pages |-> validated,
     seen_items |-> deduplicated.seen, deduplicated_pages |-> deduplicated.pages]

AfterValidation(validated) ==
    IF validated.raised THEN Raised
    ELSE Deduplicated(validated.pages, _deduplicate_items(validated.pages))

\* a core that refuses an empty page list
validate_and_deduplicate_refusing_empty(pagewise_line_items) ==
    IF pagewise_line_items = <<>> THEN Raised
    ELSE AfterValidation(ValidatePages(pagewise_line_items, 1))

validate_and_deduplicate(pagewise_line_items) ==
    IF pagewise_line_items = <<>> THEN Deduplicated(<<>>, [pages |-> <<>>, seen |-> <<>>])
    ELSE AfterValidation(ValidatePages(pagewise_line_items, 1))

-----------------------------------------------------------------------------
(* services/data_validator.py: class DataValidator, the second copy of the  *)
(* core, translated method by method from its own source                   *)

\* self.similarity_threshold = 0.8
DataValidator_similarity_threshold == [num |-> 8, den |-> 10]

DataValidator_total_keywords ==
    << <<"t","o","t","a","l">>,
       <<"s","u","b","t","o","t","a","l">>,
       <<"s","u","b","-","t","o","t","a","l">>,
       <<"g","r","a","n","d"," ","t","o","t","a","l">>,
       <<"f","i","n","a","l"," ","t","o","t","a","l">>,
       <<"n","e","t"," ","a","m","o","u","n","t">>,
       <<"a","m","o","u","n","t"," ","d","u","e">>,
       <<"b","a","l","a","n","c","e">>,
       <<"s","u","m">>,
       <<"t","o","t","a","l"," ","a","m","o","u","n","t">>,
       <<"f","i","n","a","l"," ","a","m","o","u","n","t">> >>

\* the loop over total_keywords for one lower-cased, stripped name
DataValidator_KeywordLoop(item_lower) ==
    \E k \in DOMAIN DataValidator_total_keywords :
        /\ Contains(item_lower, DataValidator_total_keywords[k])
        /\ Len(item_lower) < 30
        /\ Strip(Replace(item_lower, DataValidator_total_keywords[k]))
               \in {<<>>, <<"-">>, <<":">>, <<"=">>}

DataValidator_is_total_or_subtotal(item_name) ==
    DataValidator_KeywordLoop(Strip(Lower(item_name)))

\* a copy that tests "final" before "pharmacy"
DataValidator_PageTypeFinalFirst(page_type_lower) ==
    CASE Contains(page_type_lower, <<"f","i","n","a","l">>) -> FinalBill
      [] ~Contains(page_type_lower, <<"f","i","n","a","l">>)
             /\ Contains(page_type_lower, Lower(Pharmacy)) -> Pharmacy
      [] OTHER -> BillDetail

DataValidator_PageType(page_type_lower) ==
    CASE Contains(page_type_lower, Lower(Pharmacy)) -> Pharmacy
      [] ~Contains(page_type_lower, Lower(Pharmacy))
             /\ Contains(page_type_lower, <<"f","i","n","a","l">>) -> FinalBill
      [] OTHER -> BillDetail

DataValidator_normalize_page_type(page_type) ==
    DataValidator_PageType(Strip(Lower(page_type.s)))

\* the try block and the dict returned, given the three float() results
DataValidator_Converted(item_name, item_amount, item_rate, item_quantity) ==
    IF item_amount.ok /\ item_rate.ok /\ item_quantity.ok
    THEN [r |-> "item",
          item |-> [item_name |-> item_name, item_amount |-> item_amount.n,
                    item_rate |-> item_rate.n, item_quantity |-> item_quantity.n]]
    ELSE [r |-> "none", item |-> NoItem]

\* _validate_item from the test on the name on
DataValidator_Named(item_name, item) ==
    IF Len(item_name) = 0 \/ Len(item_name) < 2 \/ DataValidator_is_total_or_subtotal(item_name)
    THEN [r |-> "none", item |-> NoItem]
    ELSE DataValidator_Converted(item_name,
             PyFloat(Get(item.item_amount, FloatVal(0))),
             PyFloat(Get(item.item_rate, FloatVal(0))),
             PyFloat(Get(item.item_quantity, FloatVal(0))))

\* r = "raise": item.get on something that is no dict
DataValidator_validate_item(item) ==
    IF item.t = "dict"
    THEN DataValidator_Named(Strip(PyStr(Get(item.item_name, StrVal(<<>>)))), item)
    ELSE [r |-> "raise", item |-> NoItem]

RECURSIVE DataValidator_ItemLoop(_, _, _)

\* one pass of "for item in bill_items", given the validated item
DataValidator_ItemPass(bill_items, i, validated, validated_item) ==
    CASE validated_item.r = "raise" -> [raised |-> TRUE, items |-> <<>>]
      [] validated_item.r = "item" ->
             DataValidator_ItemLoop(bill_items, i + 1, Append(validated, validated_item.item))
      [] OTHER -> DataValidator_ItemLoop(bill_items, i + 1, validated)

\* the loop of _validate_page, with the items appended so far
DataValidator_ItemLoop(bill_items, i, validated) ==
    IF i > Len(bill_items) THEN [raised |-> FALSE, items |-> validated]
    ELSE DataValidator_ItemPass(bill_items, i, validated,
                                DataValidator_validate_item(bill_items[i]))

\* validated_page, given what the three page.get calls returned
DataValidator_PageOf(page_no, page_type, bill_items) ==
    IF page_type.t # "str" \/ bill_items.raised
    THEN [raised |-> TRUE, page |-> NoPage]
    ELSE [raised |-> FALSE,
          page |-> [page_no |-> PyStr(page_no),
                    page_type |-> DataValidator_normalize_page_type(page_type),
                    bill_items |-> bill_items.items]]

\* page.get("bill_items", []) and the loop over it: a list is walked, a
\* missing key is the empty list, None cannot be iterated
DataValidator_BillItems(bill_items) ==
    CASE bill_items.t = "list" -> DataValidator_ItemLoop(bill_items.items, 1, <<>>)
      [] bill_items.t = "absent" -> [raised |-> FALSE, items |-> <<>>]
      [] OTHER -> [raised |-> TRUE, items |-> <<>>]

DataValidator_validate_page(page) ==
    IF page.t = "dict"
    THEN DataValidator_PageOf(Get(page.page_no, StrVal(<<"1">>)),
                              Get(page.page_type, StrVal(BillDetail)),
                              DataValidator_BillItems(page.bill_items))
    ELSE [raised |-> TRUE, page |-> NoPage]

\* intersection / union of the two word sets as a fraction
DataValidator_Jaccard(words1, words2) ==
    IF words1 = {} \/ words2 = {} \/ (words1 \cup words2) = {}
    THEN [num |-> 0, den |-> 1]
    ELSE [num |-> Cardinality(words1 \cap words2), den |-> Cardinality(words1 \cup words2)]

DataValidator_calculate_name_similarity(name1, name2) ==
    DataValidator_Jaccard(Words(name1), Words(name2))

\* the test on the amounts, in thousandths: amount_diff < 0.01 or
\* amount_diff / max(abs(amount1), 0.01) < 0.05
DataValidator_AmountTest(amount_diff, amount1) ==
    amount_diff < 10 \/ 20 * amount_diff < Max(Abs(amount1), 10)

DataValidator_Compared(name_similarity, amount1, amount2) ==
    /\ name_similarity.num * DataValidator_similarity_threshold.den
           > DataValidator_similarity_threshold.num * name_similarity.den
    /\ DataValidator_AmountTest(Abs(amount1 - amount2), amount1)

DataValidator_NamesCompared(name1, name2, amount1, amount2) ==
    \/ name1 = name2
    \/ DataValidator_Compared(DataValidator_calculate_name_similarity(name1, name2),
                              amount1, amount2)

DataValidator_are_items_duplicate(item1, item2) ==
    DataValidator_NamesCompared(Strip(Lower(item1.item_name)), Strip(Lower(item2.item_name)),
                                item1.item_amount, item2.item_amount)

\* the loop "for seen_item in seen_items" with its break
DataValidator_IsDuplicate(item, seen_items_so_far) ==
    \E k \in DOMAIN seen_items_so_far :
        DataValidator_are_items_duplicate(item, seen_items_so_far[k])

RECURSIVE DataValidator_PageLoop(_, _, _, _, _)

\* where the loops go after one item: the item appended to the page and
\* tagged into seen_items unless it is a duplicate
DataValidator_ItemScanned(pages, p, i, state, is_duplicate) ==
    IF is_duplicate THEN DataValidator_PageLoop(pages, p, i + 1, state.seen, state.kept)
    ELSE DataValidator_PageLoop(pages, p, i + 1,
             Append(state.seen, pages[p].bill_items[i] @@ [page_no |-> pages[p].page_no]),
             Append(state.kept, pages[p].bill_items[i]))

\* deduplicated_pages.append(deduplicated_page), ahead of the later pages
DataValidator_PageDone(page, kept, rest) ==
    [seen |-> rest.seen,
     pages |-> <<[page_no |-> page.page_no, page_type |-> page.page_type,
                  bill_items |-> kept]>> \o rest.pages]

\* the two loops of _deduplicate_items, at item i of page p, with seen_items
\* and the bill_items of the page's deduplicated_page as they stand
DataValidator_PageLoop(pages, p, i, seen, kept) ==
    IF p > Len(pages) THEN [seen |-> seen, pages |-> <<>>]
    ELSE IF i > Len(pages[p].bill_items)
    THEN DataValidator_PageDone(pages[p], kept,
                                DataValidator_PageLoop(pages, p + 1, 1, seen, <<>>))
    ELSE DataValidator_ItemScanned(pages, p, i, [seen |-> seen, kept |-> kept],
             DataValidator_IsDuplicate(pages[p].bill_items[i], seen))

DataValidator_deduplicate_items(pages) == DataValidator_PageLoop(pages, 1, 1, <<>>, <<>>)

RECURSIVE DataValidator_ValidationLoop(_, _, _)

DataValidator_PageValidated(pagewise_line_items, p, validated, validated_page) ==
    IF validated_page.raised THEN [raised |-> TRUE, pages |-> <<>>]
    ELSE DataValidator_ValidationLoop(pagewise_line_items, p + 1,
                                      Append(validated, validated_page.page))

\* the loop "for page in pagewise_line_items", then the deduplication
DataValidator_ValidationLoop(pagewise_line_items, p, validated) ==
    IF p > Len(pagewise_line_items)
    THEN [raised |-> FALSE, pages |-> DataValidator_deduplicate_items(validated).pages]
    ELSE DataValidator_PageValidated(pagewise_line_items, p, validated,
             DataValidator_validate_page(pagewise_line_items[p]))

\* raised: an exception left the call; pages: the list returned
DataValidator_validate_and_deduplicate(pagewise_line_items) ==
    IF pagewise_line_items = <<>> THEN [raised |-> FALSE, pages |-> <<>>]
    ELSE DataValidator_ValidationLoop(pagewise_line_items, 1, <<>>)

-----------------------------------------------------------------------------
(* main.py: the Reconciler, steps 4 and 5 of process_invoice_request       *)

RECURSIVE SumOfLengths(_)
SumOfLengths(pages) ==
    IF pages = <<>> THEN 0
    ELSE Len(Head(pages).bill_items) + SumOfLengths(Tail(pages))

RECURSIVE SumOfAmounts(_)
SumOfAmounts(items) ==
    IF items = <<>> THEN 0 ELSE Head(items).item_amount + SumOfAmounts(Tail(items))

RECURSIVE AllItems(_)
AllItems(pages) ==
    IF pages = <<>> THEN <<>> ELSE Head(pages).bill_items \o AllItems(Tail(pages))

\* round(x): a rounding to whole units, the number of decimals left out
Round0(n) == 1000 * ((n + 500) \div 1000)

\* round(x, 2) on thousandths: to the nearest hundredth.  At a tie (a 5 in the
\* thousandths) Python rounds the binary float, which lies a little above or
\* below the decimal; the tie goes to the even hundredth here, and no sum of
\* the amounts the requests carry ends in 5.
Round2(n) ==
    LET q == n \div 10
        r == n % 10
    IN  IF r < 5 THEN 10 * q
        ELSE IF r > 5 THEN 10 * (q + 1)
        ELSE IF q % 2 = 0 THEN 10 * q ELSE 10 * (q + 1)

-----------------------------------------------------------------------------
(* The requests the model runs                                             *)

MaxPages == 3
MaxTotalItems == 3

RawItem(name, amount) ==
    [t |-> "dict", item_name |-> name, item_amount |-> amount,
     item_rate |-> amount, item_quantity |-> FloatVal(1000)]

\* what the extraction stage hands over for one line of a bill: the same
\* charge read in two word orders (at 10.5 and at 10.504) and in capitals
\* with a leading blank (at 20.0), and once with an amount that is no number
ItemPool ==
    { RawItem(StrVal(<<"s","e","t"," ","i","v">>), FloatVal(10500)),
      RawItem(StrVal(<<"i","v"," ","s","e","t">>), FloatVal(10504)),
      RawItem(StrVal(<<" ","I","V"," ","S","E","T">>), FloatVal(20000)),
      RawItem(StrVal(<<"i","v"," ","s","e","t">>), StrVal(<<"a","b">>)) }

ItemLists(n) == UNION {[1..k -> ItemPool] : k \in 0..n}

\* the item lists of p pages holding at most n items in all
RECURSIVE Shapes(_, _)
Shapes(p, n) ==
    IF p = 0 THEN {<<>>}
    ELSE UNION {{<<items>> \o rest : rest \in Shapes(p - 1, n - Len(items))} :
                items \in ItemLists(n)}

\* how the pages are labelled: "labelled" as the extractor's prompt asks;
\* "loose" with neither page_no nor page_type on the odd pages (and no
\* bill_items where there are none) and an int page_no and a free-text
\* page_type on the even ones; "null_type" with page_type null on the last page
PageStyles == {"labelled", "loose", "null_type"}

RawPage(style, i, last, items) ==
    [t |-> "dict",
     page_no |-> CASE style = "loose" /\ i % 2 = 1 -> Absent
                   [] style = "loose" /\ i % 2 = 0 -> IntVal(i)
                   [] OTHER -> StrVal(NatText(i)),
     page_type |-> CASE style = "loose" /\ i % 2 = 1 -> Absent
                     [] style = "loose" /\ i % 2 = 0 ->
                          StrVal(<<"F","i","n","a","l"," ","p","h","a","r","m","a","c","y">>)
                     [] style = "null_type" /\ last -> None
                     [] OTHER -> StrVal(BillDetail),
     bill_items |-> IF style = "loose" /\ i % 2 = 1 /\ items = <<>>
                    THEN [t |-> "absent", items |-> <<>>]
                    ELSE [t |-> "list", items |-> items]]

Requests ==
    {[i \in 1..Len(shape) |-> RawPage(style, i, i = Len(shape), shape[i])] :
        shape \in UNION {Shapes(p, MaxTotalItems) : p \in 0..MaxPages},
        style \in PageStyles}

-----------------------------------------------------------------------------
(* services/extractor.py: what _extract_page_data does to the page the     *)
(* language model returned before the endpoint sees it                     *)

\* an except block that sets to 0.0 only the fields float() refused
DefaultedFieldwise(item_name, item_amount, item_rate, item_quantity) ==
    [t |-> "dict", item_name |-> item_name,
     item_amount |-> FloatVal(IF item_amount.ok THEN item_amount.n ELSE 0),
     item_rate |-> FloatVal(IF item_rate.ok THEN item_rate.n ELSE 0),
     item_quantity |-> FloatVal(IF item_quantity.ok THEN item_quantity.n ELSE 0)]

\* the three float() calls, and the reset of all three to 0.0 when one fails
Defaulted(item_name, item_amount, item_rate, item_quantity) ==
    IF item_amount.ok /\ item_rate.ok /\ item_quantity.ok
    THEN [t |-> "dict", item_name |-> item_name,
          item_amount |-> FloatVal(item_amount.n), item_rate |-> FloatVal(item_rate.n),
          item_quantity |-> FloatVal(item_quantity.n)]
    ELSE [t |-> "dict", item_name |-> item_name,
          item_amount |-> FloatVal(0), item_rate |-> FloatVal(0),
          item_quantity |-> FloatVal(0)]

\* item.setdefault(...) for the four keys, then the conversions
ExtractedItem(item) ==
    Defaulted(Get(item.item_name, StrVal(<<>>)),
              PyFloat(Get(item.item_amount, FloatVal(0))),
              PyFloat(Get(item.item_rate, FloatVal(0))),
              PyFloat(Get(item.item_quantity, FloatVal(0))))

\* page_data with bill_items set to [] when the key is absent and every item
\* normalized; page_no and page_type stay as the language model gave them
ExtractedPage(page_data) ==
    [t |-> "dict", page_no |-> page_data.page_no, page_type |-> page_data.page_type,
     bill_items |-> [t |-> "list",
                     items |-> [i \in 1..Len(page_data.bill_items.items) |->
                                   ExtractedItem(page_data.bill_items.items[i])]]]

\* self.token_usage = {"total_tokens": 0, "input_tokens": 0, "output_tokens": 0}
NoUsage == [total_tokens |-> 0, input_tokens |-> 0, output_tokens |-> 0]

\* extract_bill_data(...)["pagewise_line_items"] for the pages the language
\* model returned
extract_bill_data(pages) == [i \in 1..Len(pages) |-> ExtractedPage(pages[i])]

\* The state once the extraction result is in.  The endpoint hands the core
\* what the extractor made of the language model's pages; a direct caller
\* hands it the pages as they are.
Init ==
    /\ caller \in {"endpoint", "direct"}
    /\ llm_pages \in IF caller = "endpoint"
                     THEN {extract_bill_data(pages) : pages \in Requests}
                     ELSE Requests
    /\ pc = IF caller = "endpoint" THEN "step2" ELSE "call"
    /\ validated_pages = <<>>
    /\ seen_items = <<>>
    /\ deduplicated_pages = <<>>
    /\ clean_data = <<>>
    /\ item_count_total = 0
    /\ calculated_total_sum = 0
    /\ token_usage = NoUsage
    /\ extraction = <<>>
    /\ fn_in = <<>>
    /\ fn_out = <<>>

-----------------------------------------------------------------------------
(* process_invoice_request (main.py).  Nothing is awaited after the          *)
(* extraction result is in, so the steps below run in program order.         *)

\* step 2, the guard on the extraction result:
\* HTTPException(500, "Failed to extract data from document")
ExtractionFailed ==
    /\ caller = "endpoint"
    /\ pc = "step2"
    /\ llm_pages = <<>>
    /\ pc' = "http500"
    /\ UNCHANGED <<token_usage, extraction,
                   caller, llm_pages, validated_pages, seen_items, deduplicated_pages,
                   clean_data, item_count_total, calculated_total_sum, fn_in, fn_out>>

\* what a call of the core leaves behind: its locals, and clean_data when
\* it returns
CoreLeaves(result, pc_returned) ==
    /\ validated_pages' = result.validated_pages
    /\ seen_items' = result.seen_items
    /\ deduplicated_pages' = result.deduplicated_pages
    /\ clean_data' = result.deduplicated_pages
    /\ pc' = IF result.raised THEN "raised" ELSE pc_returned

\* step 3: clean_data = audit_service.validate_and_deduplicate(...)
Step3 ==
    /\ caller = "endpoint"
    /\ pc = "step2"
    /\ llm_pages # <<>>
    /\ CoreLeaves(validate_and_deduplicate(llm_pages), "step4")
    /\ UNCHANGED <<token_usage, extraction,
                   caller, llm_pages, item_count_total, calculated_total_sum, fn_in, fn_out>>

\* a count taken from the pages as validated, before deduplication
Step4BeforeDeduplication ==
    /\ pc = "step4"
    /\ item_count_total' = SumOfLengths(validated_pages)
    /\ pc' = "step5"
    /\ UNCHANGED <<token_usage, extraction,
                   caller, llm_pages, validated_pages, seen_items, deduplicated_pages,
                   clean_data, calculated_total_sum, fn_in, fn_out>>

\* step 4: item_count_total
Step4 ==
    /\ pc = "step4"
    /\ item_count_total' = SumOfLengths(clean_data)
    /\ pc' = "step5"
    /\ UNCHANGED <<token_usage, extraction,
                   caller, llm_pages, validated_pages, seen_items, deduplicated_pages,
                   clean_data, calculated_total_sum, fn_in, fn_out>>

\* step 5 and 6: the sum, its rounding, and the response built from both
Step5 ==
    /\ pc = "step5"
    /\ calculated_total_sum' = Round2(SumOfAmounts(AllItems(clean_data)))
    /\ pc' = "responded"
    /\ UNCHANGED <<token_usage, extraction,
                   caller, llm_pages, validated_pages, seen_items, deduplicated_pages,
                   clean_data, item_count_total, fn_in, fn_out>>

\* except Exception: HTTPException(500, "Internal server error: ...")
InternalError ==
    /\ caller = "endpoint"
    /\ pc = "raised"
    /\ pc' = "http500"
    /\ UNCHANGED <<token_usage, extraction,
                   caller, llm_pages, validated_pages, seen_items, deduplicated_pages,
                   clean_data, item_count_total, calculated_total_sum, fn_in, fn_out>>

\* validate_and_deduplicate called on its own, outside the endpoint
DirectCall ==
    /\ caller = "direct"
    /\ pc = "call"
    /\ CoreLeaves(validate_and_deduplicate(llm_pages), "returned")
    /\ UNCHANGED <<token_usage, extraction,
                   caller, llm_pages, item_count_total, calculated_total_sum, fn_in, fn_out>>

Next ==
    \/ ExtractionFailed
    \/ Step3
    \/ Step4
    \/ Step5
    \/ InternalError
    \/ DirectCall

Spec == Init /\ [][Next]_vars

-----------------------------------------------------------------------------
(* A call of _validate_page on one raw page                                *)

MaxPageItems == 2

\* the names of the lines: three that are totals of the bill, two that only
\* hold a total keyword, and a plain one
TotalNames == {TotalColon, GrandTotal, SubTotalEq}

LineItemNames == {TotalKneeReplacement, AntibioticsTotalCourse, <<"i","v"," ","s","e","t">>}

\* what the extraction stage can put in a numeric field: nothing (the key is
\* absent), a float, an int, numeric text, and three values float() refuses
NumericValues ==
    {Absent, FloatVal(10500), IntVal(3), StrVal(<<" ","1","2",".","5"," ">>), StrVal(<<"-","7">>),
     StrVal(NotANumber), StrVal(<<>>), None}

NamedItem(name) ==
    [t |-> "dict", item_name |-> StrVal(name), item_amount |-> FloatVal(10500),
     item_rate |-> FloatVal(10500), item_quantity |-> FloatVal(1000)]

\* a plain item with one numeric field set to v
FieldItem(field, v) ==
    [t |-> "dict", item_name |-> StrVal(<<"i","v"," ","s","e","t">>),
     item_amount |-> IF field = "item_amount" THEN v ELSE FloatVal(10500),
     item_rate |-> IF field = "item_rate" THEN v ELSE FloatVal(10500),
     item_quantity |-> IF field = "item_quantity" THEN v ELSE FloatVal(1000)]

PageItemPool ==
    {NamedItem(name) : name \in TotalNames \cup LineItemNames}
    \cup {FieldItem(field, v) : field \in {"item_amount", "item_rate", "item_quantity"},
                                v \in NumericValues}

PageCalls ==
    {[t |-> "dict", page_no |-> StrVal(<<"1">>),
      page_type |-> StrVal(BillDetail),
      bill_items |-> [t |-> "list", items |-> items]] :
        items \in UNION {[1..k -> PageItemPool] : k \in 0..MaxPageItems}}

InitPage ==
    /\ caller = "direct"
    /\ llm_pages = <<>>
    /\ pc = "page"
    /\ validated_pages = <<>>
    /\ seen_items = <<>>
    /\ deduplicated_pages = <<>>
    /\ clean_data = <<>>
    /\ item_count_total = 0
    /\ calculated_total_sum = 0
    /\ token_usage = NoUsage
    /\ extraction = <<>>
    /\ fn_in \in PageCalls
    /\ fn_out = <<>>

\* validated_page = self._validate_page(page)
ValidatePageCall ==
    /\ pc = "page"
    /\ fn_out' = _validate_page(fn_in)
    /\ pc' = "page_returned"
    /\ UNCHANGED <<token_usage, extraction,
                   caller, llm_pages, validated_pages, seen_items, deduplicated_pages,
                   clean_data, item_count_total, calculated_total_sum, fn_in>>

NextPage == ValidatePageCall

SpecPage == InitPage /\ [][NextPage]_vars

-----------------------------------------------------------------------------
(* Calls of _validate_page on pages of named items that hold total keywords *)

\* names a keyword makes a total, names in which the first keyword that
\* occurs leaves a word and a later keyword leaves nothing, names in which two
\* keywords leave one another, and names of 30 characters
ClassifierNames ==
    { TotalColon, GrandTotal, SubTotalEq, SubtotalText, TotalAmountText,
      TotalDashTotal, DashBalance, SumTotal, NetAmountDue,
      TotalKneeReplacement, SixTotals, FiveTotalsColon }

ClassifierCalls ==
    {[t |-> "dict", page_no |-> StrVal(<<"1">>),
      page_type |-> StrVal(BillDetail),
      bill_items |-> [t |-> "list", items |-> items]] :
        items \in UNION {[1..n -> {NamedItem(name) : name \in ClassifierNames}] :
                            n \in 1..MaxPageItems}}

InitClassifier ==
    /\ caller = "direct"
    /\ llm_pages = <<>>
    /\ pc = "page"
    /\ validated_pages = <<>>
    /\ seen_items = <<>>
    /\ deduplicated_pages = <<>>
    /\ clean_data = <<>>
    /\ item_count_total = 0
    /\ calculated_total_sum = 0
    /\ token_usage = NoUsage
    /\ extraction = <<>>
    /\ fn_in \in ClassifierCalls
    /\ fn_out = <<>>

SpecClassifier == InitClassifier /\ [][NextPage]_vars

-----------------------------------------------------------------------------
(* A call of _are_items_duplicate on two validated items, and of           *)
(* _deduplicate_items on two pages holding one of them each                *)

PairNames ==
    { Paracetamol,
      ParacetamolCaps,
      ParacetamolTab,
      ParacetamolTablet,
      TabParacetamol }

PairAmounts == {0, 100000, 100500, 500000}

PairItem(name, amount) ==
    [item_name |-> name, item_amount |-> amount, item_rate |-> amount,
     item_quantity |-> 1000]

PairCalls ==
    {<<PairItem(name1, amount1), PairItem(name2, amount2)>> :
        name1 \in PairNames, amount1 \in PairAmounts,
        name2 \in PairNames, amount2 \in PairAmounts}

\* the validated page that holds one item
PageOf(page_no, item) ==
    [page_no |-> page_no, page_type |-> BillDetail, bill_items |-> <<item>>]

InitPair ==
    /\ caller = "direct"
    /\ llm_pages = <<>>
    /\ pc = "pair"
    /\ validated_pages = <<>>
    /\ seen_items = <<>>
    /\ deduplicated_pages = <<>>
    /\ clean_data = <<>>
    /\ item_count_total = 0
    /\ calculated_total_sum = 0
    /\ token_usage = NoUsage
    /\ extraction = <<>>
    /\ fn_in \in PairCalls
    /\ fn_out = <<>>

\* self._are_items_duplicate(item, seen_item)
AreItemsDuplicateCall ==
    /\ pc = "pair"
    /\ fn_out' = _are_items_duplicate(fn_in[2], fn_in[1])
    /\ pc' = "compared"
    /\ UNCHANGED <<token_usage, extraction,
                   caller, llm_pages, validated_pages, seen_items, deduplicated_pages,
                   clean_data, item_count_total, calculated_total_sum, fn_in>>

\* what _deduplicate_items leaves behind
DedupLeaves(pages, deduplicated) ==
    /\ validated_pages' = pages
    /\ seen_items' = deduplicated.seen
    /\ deduplicated_pages' = deduplicated.pages

\* self._deduplicate_items(validated_pages), the first item on page 1 and the
\* second on page 2
DeduplicateItemsCall ==
    /\ pc = "compared"
    /\ DedupLeaves(<<PageOf(<<"1">>, fn_in[1]), PageOf(<<"2">>, fn_in[2])>>,
                   _deduplicate_items(<<PageOf(<<"1">>, fn_in[1]),
                                        PageOf(<<"2">>, fn_in[2])>>))
    /\ pc' = "deduplicated"
    /\ UNCHANGED <<token_usage, extraction,
                   caller, llm_pages, clean_data, item_count_total,
                   calculated_total_sum, fn_in, fn_out>>

NextPair ==
    \/ AreItemsDuplicateCall
    \/ DeduplicateItemsCall

SpecPair == InitPair /\ [][NextPair]_vars

-----------------------------------------------------------------------------
(* Calls of _are_items_duplicate and of _deduplicate_items on two items    *)
(* whose names share words and whose amounts are near one another          *)

\* names of four, five and six words, the five words in another order and
\* in capitals between blanks, and the empty name of a direct call
SimilarityNames ==
    {FourWords, FiveWords, SixWords, FiveWordsReordered, FiveWordsShouted, <<>>}

\* 0.0 and 0.005, 100.0 and 105.0, -100.0 and -104.0
SimilarityAmounts == {0, 5, 100000, 105000, 0 - 100000, 0 - 104000}

SimilarityCalls ==
    {<<PairItem(name1, amount1), PairItem(name2, amount2)>> :
        name1 \in SimilarityNames, amount1 \in SimilarityAmounts,
        name2 \in SimilarityNames, amount2 \in SimilarityAmounts}

InitSimilarity ==
    /\ caller = "direct"
    /\ llm_pages = <<>>
    /\ pc = "pair"
    /\ validated_pages = <<>>
    /\ seen_items = <<>>
    /\ deduplicated_pages = <<>>
    /\ clean_data = <<>>
    /\ item_count_total = 0
    /\ calculated_total_sum = 0
    /\ token_usage = NoUsage
    /\ extraction = <<>>
    /\ fn_in \in SimilarityCalls
    /\ fn_out = <<>>

SpecSimilarity == InitSimilarity /\ [][NextPair]_vars

-----------------------------------------------------------------------------
(* Calls of _are_items_duplicate and of _deduplicate_items on two items    *)
(* whose names share three, four or five words                             *)

\* names of three to six words of one list, with a word repeated, with
\* capitals and wider gaps, with a trailing blank and a fifth word of their own
WordNames ==
    { ThreeWords, FourWords, FourWordsRepeated, FourWordsSpaced,
      FiveWords, FiveWordsOther, FiveWordsReordered, FiveWordsShouted, SixWords }

\* 100.0, 100.005 and 500.0
WordAmounts == {100000, 100005, 500000}

WordCalls ==
    {<<PairItem(name1, amount1), PairItem(name2, amount2)>> :
        name1 \in WordNames, amount1 \in WordAmounts,
        name2 \in WordNames, amount2 \in WordAmounts}

InitWords ==
    /\ caller = "direct"
    /\ llm_pages = <<>>
    /\ pc = "pair"
    /\ validated_pages = <<>>
    /\ seen_items = <<>>
    /\ deduplicated_pages = <<>>
    /\ clean_data = <<>>
    /\ item_count_total = 0
    /\ calculated_total_sum = 0
    /\ token_usage = NoUsage
    /\ extraction = <<>>
    /\ fn_in \in WordCalls
    /\ fn_out = <<>>

SpecWords == InitWords /\ [][NextPair]_vars

-----------------------------------------------------------------------------
(* Calls of _validate_page and of validate_and_deduplicate on one page     *)
(* whose keys are missing, null or of another type                         *)

\* item_name as the language model can give it: text that is kept (once
\* trimmed), text that is too short or blank, totals, no key, null, numbers
\* and a bool
MessyNames ==
    { StrVal(IvSet), StrVal(PaddedIvSet), StrVal(TotalKneeReplacement),
      StrVal(<<"x">>), StrVal(PaddedX), StrVal(<<>>), StrVal(Blanks),
      StrVal(TotalColon), StrVal(PaddedSum),
      Absent, None, IntVal(5), IntVal(42), BoolVal(TRUE) }

\* item_amount as text that names no finite number, as a bool and as a
\* negative number
MessyAmounts == {StrVal(InfText), StrVal(PaddedNaNText), BoolVal(TRUE), StrVal(MinusSeven)}

MessyItem(name) ==
    [t |-> "dict", item_name |-> name, item_amount |-> FloatVal(10500),
     item_rate |-> FloatVal(10500), item_quantity |-> FloatVal(1000)]

MessyItemPool ==
    {MessyItem(name) : name \in MessyNames}
    \cup {FieldItem("item_amount", v) : v \in MessyAmounts}
    \cup {FieldItem("item_quantity", StrVal(MinusInfinityText))}

MessyPageNos == {Absent, StrVal(<<"7">>), IntVal(2)}

MessyPageTypes ==
    { Absent, None, StrVal(FinalPharmacyBill), StrVal(FinalBillShouted),
      StrVal(PharmacyShouted), StrVal(<<"x","y","z">>) }

MessyBillItems ==
    {[t |-> "absent", items |-> <<>>]}
    \cup {[t |-> "list", items |-> items] :
             items \in UNION {[1..k -> MessyItemPool] : k \in 0..MaxPageItems}}

MessyPages ==
    {[t |-> "dict", page_no |-> page_no, page_type |-> page_type,
      bill_items |-> bill_items] :
        page_no \in MessyPageNos, page_type \in MessyPageTypes,
        bill_items \in MessyBillItems}

InitMessy ==
    /\ caller = "direct"
    /\ llm_pages = <<>>
    /\ pc = "page"
    /\ validated_pages = <<>>
    /\ seen_items = <<>>
    /\ deduplicated_pages = <<>>
    /\ clean_data = <<>>
    /\ item_count_total = 0
    /\ calculated_total_sum = 0
    /\ token_usage = NoUsage
    /\ extraction = <<>>
    /\ fn_in \in MessyPages
    /\ fn_out = <<>>

\* a validated item as the dict it is: a str and three floats
AsRawItem(item) ==
    [t |-> "dict", item_name |-> StrVal(item.item_name),
     item_amount |-> FloatVal(item.item_amount), item_rate |-> FloatVal(item.item_rate),
     item_quantity |-> FloatVal(item.item_quantity)]

\* a validated page as the dict it is
AsRawPage(page) ==
    [t |-> "dict", page_no |-> StrVal(page.page_no), page_type |-> StrVal(page.page_type),
     bill_items |-> [t |-> "list",
                     items |-> [i \in 1..Len(page.bill_items) |->
                                   AsRawItem(page.bill_items[i])]]]

\* what the second call leaves
Revalidated(validated_page) ==
    /\ validated_pages' = <<validated_page.page>>
    /\ pc' = IF validated_page.raised THEN "revalidation_raised" ELSE "page_revalidated"

\* self._validate_page(validated_page): the page the first call returned,
\* validated again
RevalidatePageCall ==
    /\ pc = "page_returned"
    /\ ~fn_out.raised
    /\ Revalidated(_validate_page(AsRawPage(fn_out.page)))
    /\ UNCHANGED <<token_usage, extraction,
                   caller, llm_pages, seen_items, deduplicated_pages, clean_data,
                   item_count_total, calculated_total_sum, fn_in, fn_out>>

\* self.validate_and_deduplicate([page])
CorePageCall ==
    /\ pc = "page"
    /\ CoreLeaves(validate_and_deduplicate(<<fn_in>>), "returned")
    /\ UNCHANGED <<token_usage, extraction,
                   caller, llm_pages, item_count_total, calculated_total_sum, fn_in, fn_out>>

NextMessy ==
    \/ ValidatePageCall
    \/ RevalidatePageCall
    \/ CorePageCall

SpecMessy == InitMessy /\ [][NextMessy]_vars

-----------------------------------------------------------------------------
(* The same page list handed to ValidationEngine.validate_and_deduplicate  *)
(* and then to DataValidator.validate_and_deduplicate                      *)

\* the page lists of the direct caller, and every messy page on its own
CopyInputs == Requests \cup {<<page>> : page \in MessyPages}

InitCopies ==
    /\ caller = "direct"
    /\ llm_pages \in CopyInputs
    /\ pc = "call"
    /\ validated_pages = <<>>
    /\ seen_items = <<>>
    /\ deduplicated_pages = <<>>
    /\ clean_data = <<>>
    /\ item_count_total = 0
    /\ calculated_total_sum = 0
    /\ token_usage = NoUsage
    /\ extraction = <<>>
    /\ fn_in = <<>>
    /\ fn_out = <<>>

\* DataValidator().validate_and_deduplicate(pagewise_line_items) on the list
\* the engine was called with
DataValidatorCall ==
    /\ pc \in {"returned", "raised"}
    /\ fn_out' = DataValidator_validate_and_deduplicate(llm_pages)
    /\ pc' = IF pc = "raised" THEN "engine_raised" ELSE "engine_returned"
    /\ UNCHANGED <<token_usage, extraction,
                   caller, llm_pages, validated_pages, seen_items, deduplicated_pages,
                   clean_data, item_count_total, calculated_total_sum, fn_in>>

NextCopies ==
    \/ DirectCall
    \/ DataValidatorCall

SpecCopies == InitCopies /\ [][NextCopies]_vars

-----------------------------------------------------------------------------
(* validate_and_deduplicate called on a page list and then on the page     *)
(* list it returned                                                        *)

\* the returned page list as the list of dicts it is
AsRawPages(pages) == [p \in 1..Len(pages) |-> AsRawPage(pages[p])]

\* self.validate_and_deduplicate(clean_data): fn_out is what the second call
\* leaves
SecondCall ==
    /\ pc = "returned"
    /\ fn_out' = validate_and_deduplicate(AsRawPages(clean_data))
    /\ pc' = "returned_again"
    /\ UNCHANGED <<token_usage, extraction,
                   caller, llm_pages, validated_pages, seen_items, deduplicated_pages,
                   clean_data, item_count_total, calculated_total_sum, fn_in>>

NextTwice ==
    \/ DirectCall
    \/ SecondCall

SpecTwice == InitCopies /\ [][NextTwice]_vars

-----------------------------------------------------------------------------
(* Two calls of validate_and_deduplicate on the one module-level           *)
(* audit_service.  Each call has its own frame: llm_pages[r], pc[r],       *)
(* validated_pages[r], seen_items[r], deduplicated_pages[r] and            *)
(* clean_data[r] are the argument, the position, the locals and the        *)
(* result of call r.  The endpoint awaits nothing inside the call; the     *)
(* calls are interleaved here between the pages of the deduplication loop, *)
(* which also covers callers on several threads.                           *)

MaxCallPages == 2
MaxCallItems == 2

Calls == {1, 2}

\* the items whose fields are numbers
CallItemPool == {item \in ItemPool : item.item_amount.t = "float"}

\* the item lists of p pages that hold at most n items of the pool in all
RECURSIVE PagesOf(_, _, _)
PagesOf(pool, p, n) ==
    IF p = 0 THEN {<<>>}
    ELSE UNION {{<<items>> \o rest : rest \in PagesOf(pool, p - 1, n - Len(items))} :
                items \in UNION {[1..k -> pool] : k \in 0..n}}

CallInputs ==
    {[i \in 1..Len(shape) |-> RawPage("labelled", i, FALSE, shape[i])] :
        shape \in UNION {PagesOf(CallItemPool, p, MaxCallItems) : p \in 1..MaxCallPages}}

InitCalls ==
    /\ caller = "endpoint"
    /\ llm_pages \in [Calls -> CallInputs]
    /\ pc = [r \in Calls |-> "call"]
    /\ validated_pages = [r \in Calls |-> <<>>]
    /\ seen_items = [r \in Calls |-> <<>>]
    /\ deduplicated_pages = [r \in Calls |-> <<>>]
    /\ clean_data = [r \in Calls |-> <<>>]
    /\ item_count_total = 0
    /\ calculated_total_sum = 0
    /\ token_usage = NoUsage
    /\ extraction = <<>>
    /\ fn_in = <<>>
    /\ fn_out = <<>>

\* the frame of call r once the validation loop is over and
\* _deduplicate_items has set up its two lists
Validating(r, validated) ==
    /\ validated_pages' = [validated_pages EXCEPT ![r] = validated.pages]
    /\ seen_items' = [seen_items EXCEPT ![r] = <<>>]
    /\ deduplicated_pages' = [deduplicated_pages EXCEPT ![r] = <<>>]
    /\ pc' = [pc EXCEPT ![r] = IF validated.raised THEN "raised" ELSE "dedup"]

\* validate_and_deduplicate up to the first page of the deduplication loop
BeginCall(r) ==
    /\ pc[r] = "call"
    /\ Validating(r, ValidatePages(llm_pages[r], 1))
    /\ UNCHANGED <<token_usage, extraction,
                   caller, llm_pages, clean_data, item_count_total,
                   calculated_total_sum, fn_in, fn_out>>

\* a seen_items list kept on the instance, one for all calls
SeenItemsOfInstance(seen, r) == seen[1] \o seen[2]

\* seen_items as call r reads it: the local of its own frame
SeenItemsOf(seen, r) == seen[r]

\* what one pass of "for page in pages" leaves in the frame of call r
PageDeduplicated(r, page, kept) ==
    /\ seen_items' = [seen_items EXCEPT ![r] = kept.seen]
    /\ deduplicated_pages' =
           [deduplicated_pages EXCEPT
               ![r] = Append(@, DeduplicatedPage(page, kept.bill_items))]

\* the pass for page p of call r
DeduplicatePage(r, page) ==
    PageDeduplicated(r, page,
        DedupItems(page.bill_items, page.page_no, SeenItemsOf(seen_items, r), 1))

\* one pass of the loop over the pages in call r
DedupStep(r) ==
    /\ pc[r] = "dedup"
    /\ Len(deduplicated_pages[r]) < Len(validated_pages[r])
    /\ DeduplicatePage(r, validated_pages[r][Len(deduplicated_pages[r]) + 1])
    /\ UNCHANGED <<token_usage, extraction,
                   caller, llm_pages, pc, validated_pages, clean_data, item_count_total,
                   calculated_total_sum, fn_in, fn_out>>

\* return deduplicated_pages, and clean_data of the request that called
ReturnCall(r) ==
    /\ pc[r] = "dedup"
    /\ Len(deduplicated_pages[r]) = Len(validated_pages[r])
    /\ clean_data' = [clean_data EXCEPT ![r] = deduplicated_pages[r]]
    /\ pc' = [pc EXCEPT ![r] = "returned"]
    /\ UNCHANGED <<token_usage, extraction,
                   caller, llm_pages, validated_pages, seen_items, deduplicated_pages,
                   item_count_total, calculated_total_sum, fn_in, fn_out>>

NextCalls ==
    \E r \in Calls :
        \/ BeginCall(r)
        \/ DedupStep(r)
        \/ ReturnCall(r)

SpecCalls == InitCalls /\ [][NextCalls]_vars

-----------------------------------------------------------------------------
(* services/extractor.py: calls of extract_bill_data on the one            *)
(* module-level parsing_service.  A call runs without a break from its     *)
(* start to the asyncio.sleep before its second page, and from one sleep   *)
(* to the next or to its return: the model request is a blocking call, so  *)
(* the sleep is the only place where another call can run.  A frame holds  *)
(* pages_data with, for every page, the answer the model will give;        *)
(* token_usage is the attribute of the instance, shared by the calls.      *)

MaxExtractPages == 2

\* response.usage of a model request
Usage(prompt_tokens, completion_tokens) ==
    [total_tokens |-> prompt_tokens + completion_tokens,
     input_tokens |-> prompt_tokens, output_tokens |-> completion_tokens]

\* the dict json.loads gives for a page the model read
ModelPage(page_no, page_type, bill_items) ==
    [t |-> "dict", page_no |-> page_no, page_type |-> page_type, bill_items |-> bill_items]

\* what a model request can end in: the request raises ("call_failed"); the
\* content is no JSON ("not_json"); it is JSON but a list ("not_a_dict"); it
\* is a dict, here with "bill_items": null, with one item whose amount and
\* rate are no numbers, and with no key at all
Answers ==
    { [outcome |-> "call_failed", usage |-> NoUsage, page_data |-> <<>>],
      [outcome |-> "not_json", usage |-> Usage(10, 2), page_data |-> <<>>],
      [outcome |-> "not_a_dict", usage |-> Usage(5, 2), page_data |-> <<>>],
      [outcome |-> "dict", usage |-> Usage(10, 2),
       page_data |-> ModelPage(StrVal(<<"9">>), StrVal(BillDetail), None)],
      [outcome |-> "dict", usage |-> Usage(5, 2),
       page_data |-> ModelPage(StrVal(<<"9">>), StrVal(Pharmacy),
                         [t |-> "list",
                          items |-> <<RawItem(StrVal(IvSet), StrVal(NotANumber))>>])],
      [outcome |-> "dict", usage |-> Usage(10, 2),
       page_data |-> ModelPage(Absent, Absent, [t |-> "absent", items |-> <<>>])] }

\* raw_page_content: the pages of a document, numbered from "1", each with
\* the answer its model request will get
PagesData ==
    UNION {{[i \in 1..n |-> [page_no |-> NatText(i), answer |-> answers[i]]] :
               answers \in [1..n -> Answers]} : n \in 1..MaxExtractPages}

Idle(pages_data) ==
    [pc |-> "idle", pages_data |-> pages_data, idx |-> 0,
     pagewise_line_items |-> <<>>, result |-> <<>>]

InitExtraction ==
    /\ caller = "endpoint"
    /\ llm_pages = <<>>
    /\ pc = "step1"
    /\ validated_pages = <<>>
    /\ seen_items = <<>>
    /\ deduplicated_pages = <<>>
    /\ clean_data = <<>>
    /\ item_count_total = 0
    /\ calculated_total_sum = 0
    /\ fn_in = <<>>
    /\ fn_out = <<>>
    /\ token_usage = NoUsage
    /\ extraction \in [Calls -> {Idle(pages_data) : pages_data \in PagesData}]

\* a page handler that returns None when the request or the parsing fails
FailedPageDropped(page_no) == [t |-> "none"]

\* the dict both except blocks return
FailedPage(page_no) ==
    [t |-> "dict", page_no |-> StrVal(page_no), page_type |-> StrVal(BillDetail),
     bill_items |-> [t |-> "list", items |-> <<>>]]

\* the try block after json.loads: a dict with a list of items or without
\* the key is normalized; page_data["bill_items"] = [] on a list and the for
\* loop over None raise a TypeError, which the second except block catches
PageRead(page_no, answer) ==
    IF answer.outcome = "dict" /\ answer.page_data.bill_items.t \in {"list", "absent"}
    THEN ExtractedPage(answer.page_data)
    ELSE FailedPage(page_no)

\* the three += on self.token_usage; a request that raises reports nothing
UsageAdded(usage, answer) ==
    IF answer.outcome = "call_failed" THEN usage
    ELSE [total_tokens |-> usage.total_tokens + answer.usage.total_tokens,
          input_tokens |-> usage.input_tokens + answer.usage.input_tokens,
          output_tokens |-> usage.output_tokens + answer.usage.output_tokens]

\* "if page_result: pagewise_line_items.append(page_result)"
Appended(pagewise_line_items, page_result) ==
    IF page_result.t = "none" THEN pagewise_line_items
    ELSE Append(pagewise_line_items, page_result)

\* the frame after page idx: at the sleep before the next page, or returned
\* with the list and with self.token_usage as it then stands
AfterPage(frame, idx, pagewise_line_items, usage) ==
    IF idx < Len(frame.pages_data)
    THEN [frame EXCEPT !.pc = "sleeping", !.idx = idx,
                       !.pagewise_line_items = pagewise_line_items]
    ELSE [frame EXCEPT !.pc = "returned", !.idx = idx,
                       !.pagewise_line_items = pagewise_line_items,
                       !.result = [pagewise_line_items |-> pagewise_line_items,
                                   token_usage |-> usage]]

\* one pass of the loop of extract_bill_data for the page at idx (from 1),
\* with self.token_usage as the pass finds it
PagePass(r, idx, usage) ==
    /\ token_usage' = UsageAdded(usage, extraction[r].pages_data[idx].answer)
    /\ extraction' =
           [extraction EXCEPT
               ![r] = AfterPage(@, idx,
                          Appended(@.pagewise_line_items,
                                   PageRead(@.pages_data[idx].page_no,
                                            @.pages_data[idx].answer)),
                          UsageAdded(usage, @.pages_data[idx].answer))]

\* llm_output = await parsing_service.extract_bill_data(raw_page_content), up
\* to the first sleep: self.token_usage is reset and the first page is read
StartExtraction(r) ==
    /\ extraction[r].pc = "idle"
    /\ PagePass(r, 1, NoUsage)
    /\ UNCHANGED <<caller, llm_pages, pc, validated_pages, seen_items, deduplicated_pages,
                   clean_data, item_count_total, calculated_total_sum, fn_in, fn_out>>

\* from the end of a sleep to the next sleep or to the return
ResumeExtraction(r) ==
    /\ extraction[r].pc = "sleeping"
    /\ PagePass(r, extraction[r].idx + 1, token_usage)
    /\ UNCHANGED <<caller, llm_pages, pc, validated_pages, seen_items, deduplicated_pages,
                   clean_data, item_count_total, calculated_total_sum, fn_in, fn_out>>

NextExtraction ==
    \E r \in Calls :
        \/ StartExtraction(r)
        \/ ResumeExtraction(r)

SpecExtraction == InitExtraction /\ [][NextExtraction]_vars

-----------------------------------------------------------------------------
(* The endpoint from the pages the language model returned: fn_in keeps    *)
(* what json.loads gave for the pages, llm_pages is what extract_bill_data *)
(* made of them                                                            *)

InitEndpoint ==
    /\ caller = "endpoint"
    /\ fn_in \in Requests
    /\ llm_pages = extract_bill_data(fn_in)
    /\ pc = "step2"
    /\ validated_pages = <<>>
    /\ seen_items = <<>>
    /\ deduplicated_pages = <<>>
    /\ clean_data = <<>>
    /\ item_count_total = 0
    /\ calculated_total_sum = 0
    /\ fn_out = <<>>
    /\ token_usage = NoUsage
    /\ extraction = <<>>

NextEndpoint ==
    \/ ExtractionFailed
    \/ Step3
    \/ Step4
    \/ Step5
    \/ InternalError

SpecEndpoint == InitEndpoint /\ [][NextEndpoint]_vars

-----------------------------------------------------------------------------
(* Occurrences: the validated items by page and by position in the page    *)

Occurrences ==
    {o \in (1..Len(validated_pages)) \X (1..MaxTotalItems) :
        o[2] <= Len(validated_pages[o[1]].bill_items)}

ItemAt(o) == validated_pages[o[1]].bill_items[o[2]]

\* page order, then position in the page
Before(o1, o2) == o1[1] < o2[1] \/ (o1[1] = o2[1] /\ o1[2] < o2[2])

\* The occurrence is in the returned list.  Of equal items on one page only
\* the first can be kept (a later one equals it by name), so an occurrence is
\* kept when it is the first of its like on its page and its page of the
\* returned list holds that item.
Kept(o) ==
    /\ \A j \in 1..(o[2] - 1) : validated_pages[o[1]].bill_items[j] # ItemAt(o)
    /\ \E k \in 1..Len(clean_data[o[1]].bill_items) :
           clean_data[o[1]].bill_items[k] = ItemAt(o)

MutualDuplicates(o1, o2) ==
    /\ _are_items_duplicate(ItemAt(o1), ItemAt(o2))
    /\ _are_items_duplicate(ItemAt(o2), ItemAt(o1))

IsGroup(G) == \A a \in G : \A b \in G : a = b \/ MutualDuplicates(a, b)

\* the duplicate groups: the largest sets of occurrences that are pairwise
\* duplicates of one another, of two occurrences or more
DuplicateGroups ==
    {G \in SUBSET Occurrences :
        /\ Cardinality(G) >= 2
        /\ IsGroup(G)
        /\ \A o \in Occurrences \ G : ~IsGroup(G \cup {o})}

FirstOf(G) == CHOOSE f \in G : \A g \in G : g = f \/ Before(f, g)

\* the core has returned its page list for a request with pages
Returned == pc \in {"returned", "step4", "step5", "responded"} /\ llm_pages # <<>>

-----------------------------------------------------------------------------
(* C1 *)

\* C1, as stated: once the core has returned, in every duplicate group the
\* first occurrence is in the output and every later occurrence is not.
C1_FirstOccurrenceSurvives ==
    Returned =>
        \A G \in DuplicateGroups :
            /\ Kept(FirstOf(G))
            /\ \A g \in G \ {FirstOf(G)} : ~Kept(g)

\* C1, amended: once the core has returned, in every duplicate group at most
\* one occurrence is in the output (so when the first occurrence is there,
\* every later one is not), and the first occurrence is missing only when it
\* duplicates an item outside the group that was kept before it.
C1_FirstSurvivesUnlessDuplicateOfEarlier ==
    Returned =>
        \A G \in DuplicateGroups :
            /\ \A a \in G : \A b \in G : Kept(a) /\ Kept(b) => a = b
            /\ \/ Kept(FirstOf(G))
               \/ \E h \in Occurrences \ G :
                      /\ Before(h, FirstOf(G))
                      /\ Kept(h)
                      /\ _are_items_duplicate(ItemAt(FirstOf(G)), ItemAt(h))

\* a group whose first occurrence was removed and whose later occurrence
\* was kept
C1_Witness ==
    /\ Returned
    /\ \E G \in DuplicateGroups :
           /\ ~Kept(FirstOf(G))
           /\ \E g \in G : Kept(g)

-----------------------------------------------------------------------------
(* C2 *)

\* C2: once the core has returned from a non-empty input, the output has one
\* page per input page, at the same place and under the same page number
\* (the text of the number the input page carries), whatever became of the
\* page's items.
C2_NoPageDropped ==
    Returned =>
        /\ Len(clean_data) = Len(llm_pages)
        /\ \A i \in 1..Len(llm_pages) :
               /\ llm_pages[i].page_no.t = "str" =>
                      clean_data[i].page_no = llm_pages[i].page_no.s
               /\ llm_pages[i].page_no.t = "int" =>
                      clean_data[i].page_no = NatText(llm_pages[i].page_no.n)

\* a page that came with items, lost one to validation and the rest as
\* duplicates, and is returned with an empty item list
C2_Witness ==
    /\ Returned
    /\ \E i \in 1..Len(llm_pages) :
           /\ Len(llm_pages[i].bill_items.items) > Len(validated_pages[i].bill_items)
           /\ validated_pages[i].bill_items # <<>>
           /\ clean_data[i].bill_items = <<>>
           /\ clean_data[i].page_no = <<"2">>

-----------------------------------------------------------------------------
(* C3 *)

\* C3: validate_and_deduplicate never raises to its caller.
C3_NeverRaises == pc # "raised"

-----------------------------------------------------------------------------
(* C4 *)

KeptOccurrences == {o \in Occurrences : Kept(o)}

NormalizedNames == {Strip(Lower(ItemAt(o).item_name)) : o \in Occurrences}

\* C4: once step 4 has run, total_item_count is the number of occurrences
\* that survived deduplication, which counts no name twice; and the count is
\* only ever written in the step after the core has returned the
\* deduplicated pages of every input page.
C4_CountAfterDeduplication ==
    /\ [](pc \in {"step5", "responded"} =>
            /\ item_count_total = Cardinality(KeptOccurrences)
            /\ item_count_total <= Cardinality(NormalizedNames))
    /\ [][item_count_total' # item_count_total =>
            /\ pc = "step4"
            /\ clean_data = deduplicated_pages
            /\ Len(deduplicated_pages) = Len(llm_pages)]_vars

\* a request whose item was on several pages and was counted once
C4_Witness ==
    /\ pc = "responded"
    /\ item_count_total = 1
    /\ \E o1 \in Occurrences : \E o2 \in Occurrences :
           o1[1] # o2[1] /\ ItemAt(o1) = ItemAt(o2)

-----------------------------------------------------------------------------
(* C5 *)

\* the validated items of pages p.. in scan order that were kept
RECURSIVE KeptAmountFrom(_, _)
KeptAmountFrom(p, i) ==
    IF p > Len(validated_pages) THEN 0
    ELSE IF i > Len(validated_pages[p].bill_items) THEN KeptAmountFrom(p + 1, 1)
    ELSE (IF Kept(<<p, i>>) THEN ItemAt(<<p, i>>).item_amount ELSE 0)
         + KeptAmountFrom(p, i + 1)

ExampleItem(name, amount) ==
    [t |-> "dict", item_name |-> StrVal(name), item_amount |-> FloatVal(amount),
     item_rate |-> FloatVal(amount), item_quantity |-> FloatVal(1000)]

ExamplePage(page_no, item) ==
    [t |-> "dict", page_no |-> StrVal(page_no),
     page_type |-> StrVal(BillDetail),
     bill_items |-> [t |-> "list", items |-> <<item>>]]

\* three pages: an item of 10.5, the same item again, another item of 20.0
Example ==
    << ExamplePage(<<"1">>, ExampleItem(<<"s","e","t"," ","i","v">>, 10500)),
       ExamplePage(<<"2">>, ExampleItem(<<"s","e","t"," ","i","v">>, 10500)),
       ExamplePage(<<"3">>, ExampleItem(<<" ","I","V"," ","S","E","T">>, 20000)) >>

\* C5: the amount in the response is a whole number of hundredths, the one
\* nearest to the sum of the amounts of the occurrences that survived
\* deduplication; the example has 2 items and the total 30.5.
C5_ReconciledAmount ==
    pc = "responded" =>
        /\ calculated_total_sum % 10 = 0
        /\ Abs(calculated_total_sum - KeptAmountFrom(1, 1)) <= 5
        /\ llm_pages = Example =>
               item_count_total = 2 /\ calculated_total_sum = 30500

\* the response to the example
C5_Witness ==
    /\ pc = "responded"
    /\ llm_pages = Example
    /\ calculated_total_sum = 30500

-----------------------------------------------------------------------------
(* C6 *)

-----------------------------------------------------------------------------
(* C7 *)

\* the values of a numeric field that float() refuses
Refused == {StrVal(NotANumber), StrVal(<<>>), None}

\* the number each of the other values stands for, in thousandths
NumberOf(v) ==
    CASE v = Absent -> 0
      [] v = FloatVal(10500) -> 10500
      [] v = FloatVal(1000) -> 1000
      [] v = IntVal(3) -> 3000
      [] v = StrVal(<<" ","1","2",".","5"," ">>) -> 12500
      [] v = StrVal(<<"-","7">>) -> 0 - 7000

HasRefusedField(item) ==
    item.item_amount \in Refused \/ item.item_rate \in Refused
        \/ item.item_quantity \in Refused

\* the raw item is a line item all of whose numeric fields convert
Convertible(item) == item.item_name.s \in LineItemNames /\ ~HasRefusedField(item)

\* the validated item a convertible raw item must become
Converted(item) ==
    [item_name |-> item.item_name.s,
     item_amount |-> NumberOf(item.item_amount),
     item_rate |-> NumberOf(item.item_rate),
     item_quantity |-> NumberOf(item.item_quantity)]

ConvertedItems(items) == [i \in 1..Len(items) |-> Converted(items[i])]

\* C7: _validate_page returns, in their order, exactly the line items of the
\* page none of whose numeric fields is present with a value that is no
\* number: an item with such a field is dropped whatever comes before or
\* after it, and an absent numeric field is 0.0 in the item kept.
C7_UncoercibleItemDropped ==
    pc = "page_returned" =>
        /\ ~fn_out.raised
        /\ fn_out.page.bill_items
               = ConvertedItems(SelectSeq(fn_in.bill_items.items, Convertible))

\* a page whose first item has the amount "not-a-number" and whose second
\* item has no amount: only the second is returned, with the amount 0.0
C7_Witness ==
    /\ pc = "page_returned"
    /\ Len(fn_in.bill_items.items) = 2
    /\ fn_in.bill_items.items[1].item_amount = StrVal(NotANumber)
    /\ fn_in.bill_items.items[2].item_amount = Absent
    /\ Len(fn_out.page.bill_items) = 1
    /\ fn_out.page.bill_items[1].item_amount = 0

-----------------------------------------------------------------------------
(* C8 *)

SameNameWhenNormalized(item1, item2) ==
    \/ item1.item_name = item2.item_name
    \/ {item1.item_name, item2.item_name} = {Paracetamol, ParacetamolCaps}

\* C8: two items whose names are equal once lower-cased and trimmed are
\* reported as duplicates whatever their amounts, and of the two the later
\* one is removed by _deduplicate_items while the earlier one stays.
C8_ExactNameShortCircuit ==
    SameNameWhenNormalized(fn_in[1], fn_in[2]) =>
        /\ pc \in {"compared", "deduplicated"} => fn_out = TRUE
        /\ pc = "deduplicated" =>
               /\ deduplicated_pages[1].bill_items = <<fn_in[1]>>
               /\ deduplicated_pages[2].bill_items = <<>>

\* "Paracetamol" at 100.0 and at 500.0: compared, and the second removed
C8_Witness ==
    /\ pc = "deduplicated"
    /\ fn_in = <<PairItem(Paracetamol, 100000), PairItem(Paracetamol, 500000)>>
    /\ fn_out = TRUE
    /\ deduplicated_pages[2].bill_items = <<>>

-----------------------------------------------------------------------------
(* C9 *)

TabAndTablet ==
    <<PairItem(ParacetamolTab, 100000), PairItem(ParacetamolTablet, 100500)>>

\* C9, as stated: "Paracetamol Tab" at 100.0 and "Paracetamol Tablet" at
\* 100.5 are reported as duplicates, and deduplication removes the second.
C9_TabAndTabletMerged ==
    fn_in = TabAndTablet =>
        /\ pc \in {"compared", "deduplicated"} => fn_out = TRUE
        /\ pc = "deduplicated" => deduplicated_pages[2].bill_items = <<>>

\* the two names with the same words in another order
SameWords(item1, item2) ==
    {item1.item_name, item2.item_name} = {ParacetamolTab, TabParacetamol}

\* the amounts of the pairs drawn that are within 0.01 or within 5%
CloseAmounts(item1, item2) ==
    \/ item1.item_amount = item2.item_amount
    \/ {item1.item_amount, item2.item_amount} = {100000, 100500}

\* C9, amended: "Paracetamol Tab" at 100.0 and "Paracetamol Tablet" at 100.5
\* are not reported as duplicates (one word of three is shared, 1/3 is not
\* above 0.8) and both stay; the amount gate decides for names that differ
\* as text and have the same words: "Paracetamol Tab" and "tab paracetamol"
\* are duplicates exactly when their amounts are equal or are 100.0 and 100.5.
C9_TabAndTabletKept ==
    /\ fn_in = TabAndTablet =>
           /\ pc \in {"compared", "deduplicated"} => fn_out = FALSE
           /\ pc = "deduplicated" =>
                  /\ deduplicated_pages[1].bill_items = <<fn_in[1]>>
                  /\ deduplicated_pages[2].bill_items = <<fn_in[2]>>
    /\ SameWords(fn_in[1], fn_in[2]) /\ pc \in {"compared", "deduplicated"} =>
           fn_out = CloseAmounts(fn_in[1], fn_in[2])

\* the pair of the claim, compared and deduplicated: both items are there
C9_Witness ==
    /\ pc = "deduplicated"
    /\ fn_in = TabAndTablet
    /\ fn_out = FALSE
    /\ deduplicated_pages[2].bill_items = <<fn_in[2]>>

-----------------------------------------------------------------------------
(* C10 *)

NamesOf(items) == {items[i].item_name : i \in 1..Len(items)}

\* line items whose name holds a total keyword
NamedWithTotal == {TotalKneeReplacement, AntibioticsTotalCourse}

\* C10: of the items of a page, none named "Total:", "Grand Total" or
\* "Sub-Total =" is returned by the validator, and every one named "Total
\* Knee Replacement" or "Antibiotics Total Course" is.
C10_TotalFilterPrecision ==
    pc = "page_returned" =>
        /\ NamesOf(fn_out.page.bill_items) \cap TotalNames = {}
        /\ \A i \in 1..Len(fn_in.bill_items.items) :
               fn_in.bill_items.items[i].item_name.s \in NamedWithTotal
                   => fn_in.bill_items.items[i].item_name.s
                          \in NamesOf(fn_out.page.bill_items)

\* a page with a total line and a line item that holds the word total: the
\* line item alone is returned
C10_Witness ==
    /\ pc = "page_returned"
    /\ Len(fn_in.bill_items.items) = 2
    /\ fn_in.bill_items.items[1].item_name.s \in TotalNames
    /\ fn_in.bill_items.items[2].item_name.s \in NamedWithTotal
    /\ Len(fn_out.page.bill_items) = 1
    /\ fn_out.page.bill_items[1].item_name = fn_in.bill_items.items[2].item_name.s

-----------------------------------------------------------------------------
(* C11 *)

\* the requests of one page with one item
OneItemCalls == {pages \in CallInputs : Len(pages) = 1 /\ Len(pages[1].bill_items.items) = 1}

\* C11: whatever the other call does and wherever it stands, a call returns
\* what validate_and_deduplicate returns for its own input alone; its
\* seen_items hold items of its own pages only; and a request of one page
\* with one item gets that item back.
C11_PerRunIsolation ==
    \A r \in Calls :
        /\ \A k \in 1..Len(seen_items[r]) :
               \E p \in 1..Len(validated_pages[r]) :
                   \E i \in 1..Len(validated_pages[r][p].bill_items) :
                       seen_items[r][k] =
                           WithPage(validated_pages[r][p].bill_items[i],
                                    validated_pages[r][p].page_no)
        /\ pc[r] = "returned" =>
               /\ clean_data[r] = validate_and_deduplicate(llm_pages[r]).deduplicated_pages
               /\ llm_pages[r] \in OneItemCalls => Len(clean_data[r][1].bill_items) = 1

\* call 2 went from start to return, with the item of call 1 as its only
\* item, while call 1 stood inside its loop with that item in its seen_items;
\* call 2 got the item back
C11_Witness ==
    /\ pc[1] = "dedup"
    /\ seen_items[1] # <<>>
    /\ pc[2] = "returned"
    /\ llm_pages[2] \in OneItemCalls
    /\ llm_pages[2][1] = llm_pages[1][1]
    /\ Len(clean_data[2][1].bill_items) = 1

-----------------------------------------------------------------------------
(* C12 *)

\* C12: the page _validate_page returns, validated again, comes back as it
\* is: the same page number and page type, and the same items with the same
\* name, amount, rate and quantity; the second validation never raises.
C12_ValidationIdempotent ==
    /\ pc # "revalidation_raised"
    /\ pc = "page_revalidated" => validated_pages = <<fn_out.page>>

\* a page that validation changed (a number read from text or from a bool,
\* and a page number or type rewritten) and whose items are all there after
\* the second validation
C12_Witness ==
    /\ pc = "page_revalidated"
    /\ fn_in.page_no = IntVal(2)
    /\ fn_in.page_type = StrVal(FinalBillShouted)
    /\ Len(fn_in.bill_items.items) = 2
    /\ fn_in.bill_items.items[1].item_amount = StrVal(MinusSeven)
    /\ fn_in.bill_items.items[2].item_name = StrVal(PaddedIvSet)
    /\ Len(validated_pages[1].bill_items) = 2
    /\ validated_pages[1].bill_items[1].item_amount = 0 - 7000
    /\ validated_pages[1].bill_items[2].item_name = TrimmedIvSet

-----------------------------------------------------------------------------
(* C13 *)

\* the names of the pool that are a total once trimmed and lower-cased
TotalTexts == {TotalColon, <<"s","u","m">>}

\* C13: every item validate_and_deduplicate returns has a name that neither
\* starts nor ends with whitespace, has 2 characters or more and is no total;
\* the names of the page that are blank, too short or a total are not in the
\* output.
C13_LineItemInvariant ==
    pc = "returned" =>
        \A i \in 1..Len(clean_data[1].bill_items) :
            /\ Len(clean_data[1].bill_items[i].item_name) >= 2
            /\ Head(clean_data[1].bill_items[i].item_name) \notin Whitespace
            /\ clean_data[1].bill_items[i].item_name[
                   Len(clean_data[1].bill_items[i].item_name)] \notin Whitespace
            /\ clean_data[1].bill_items[i].item_name \notin TotalTexts
            /\ ~_is_total_or_subtotal(clean_data[1].bill_items[i].item_name)
            /\ clean_data[1].bill_items[i].item_name
                   \in {IvSet, TrimmedIvSet, TotalKneeReplacement,
                        <<"N","o","n","e">>, <<"4","2">>, <<"T","r","u","e">>}

\* a page with a name that is too short once trimmed and a name in blanks:
\* the second alone is returned, trimmed
C13_Witness ==
    /\ pc = "returned"
    /\ Len(fn_in.bill_items.items) = 2
    /\ fn_in.bill_items.items[1].item_name = StrVal(PaddedX)
    /\ fn_in.bill_items.items[2].item_name = StrVal(PaddedIvSet)
    /\ Len(clean_data[1].bill_items) = 1
    /\ clean_data[1].bill_items[1].item_name = TrimmedIvSet

-----------------------------------------------------------------------------
(* C14 *)

\* C14: every item validate_and_deduplicate returns has an amount, a rate
\* and a quantity that are finite numbers.
C14_FiniteNumbers ==
    pc = "returned" =>
        \A i \in 1..Len(clean_data[1].bill_items) :
            /\ IsFinite(clean_data[1].bill_items[i].item_amount)
            /\ IsFinite(clean_data[1].bill_items[i].item_rate)
            /\ IsFinite(clean_data[1].bill_items[i].item_quantity)

-----------------------------------------------------------------------------
(* C15 *)

\* C15: the page type _validate_page returns is Pharmacy, Final Bill or Bill
\* Detail: Pharmacy for "Final pharmacy bill" and "PHARMACY", Final Bill for
\* "FINAL bill ", Bill Detail for "xyz" and for a page without page_type.
C15_PageTypeOneOfThree ==
    pc = "page_returned" /\ ~fn_out.raised =>
        /\ fn_out.page.page_type \in {Pharmacy, FinalBill, BillDetail}
        /\ fn_in.page_type \in {StrVal(FinalPharmacyBill), StrVal(PharmacyShouted)}
               => fn_out.page.page_type = Pharmacy
        /\ fn_in.page_type = StrVal(FinalBillShouted) => fn_out.page.page_type = FinalBill
        /\ fn_in.page_type \in {StrVal(<<"x","y","z">>), Absent}
               => fn_out.page.page_type = BillDetail

\* a page type with both words, returned as Pharmacy
C15_Witness ==
    /\ pc = "page_returned"
    /\ fn_in.page_type = StrVal(FinalPharmacyBill)
    /\ ~fn_out.raised
    /\ fn_out.page.page_type = Pharmacy

-----------------------------------------------------------------------------
(* C16 *)

\* the page as _validate_page must default it
DefaultedPage(raw, page) ==
    /\ raw.page_no = Absent => page.page_no = <<"1">>
    /\ raw.page_type = Absent => page.page_type = BillDetail
    /\ raw.bill_items.t = "absent" => page.bill_items = <<>>

\* C16: a page without page_no, page_type or bill_items is not rejected for
\* it (no call raises unless page_type is null): _validate_page returns it,
\* and validate_and_deduplicate emits it, with the page number "1", the type
\* Bill Detail and no items in place of what is missing.
C16_MissingKeysDefaulted ==
    /\ pc = "page_returned" =>
           /\ fn_out.raised => fn_in.page_type = None
           /\ ~fn_out.raised => DefaultedPage(fn_in, fn_out.page)
    /\ pc = "raised" => fn_in.page_type = None
    /\ pc = "returned" => Len(clean_data) = 1 /\ DefaultedPage(fn_in, clean_data[1])

\* the page {} came back from the core as page "1", Bill Detail, no items
C16_Witness ==
    /\ pc = "returned"
    /\ fn_in.page_no = Absent
    /\ fn_in.page_type = Absent
    /\ fn_in.bill_items.t = "absent"
    /\ clean_data = <<[page_no |-> <<"1">>, page_type |-> BillDetail,
                       bill_items |-> <<>>]>>

-----------------------------------------------------------------------------
(* C17 *)

\* C17: once the core has returned, no item of the output is a duplicate
\* (the later item as first argument) of an item before it in the output,
\* on an earlier page or earlier on its page.
C17_NoDuplicateInOutput ==
    Returned =>
        \A j \in 1..Len(AllItems(clean_data)) :
            \A i \in 1..(j - 1) :
                ~_are_items_duplicate(AllItems(clean_data)[j], AllItems(clean_data)[i])

\* an output of two items or more from pages that lost an item to an item
\* of the same page and an item to an item of an earlier page
C17_Witness ==
    /\ Returned
    /\ Len(AllItems(clean_data)) >= 2
    /\ \E o \in Occurrences : \E h \in Occurrences :
           /\ h[1] = o[1] /\ h[2] < o[2]
           /\ Kept(h) /\ ~Kept(o)
           /\ _are_items_duplicate(ItemAt(o), ItemAt(h))
    /\ \E o \in Occurrences : \E h \in Occurrences :
           /\ h[1] < o[1]
           /\ Kept(h) /\ ~Kept(o)
           /\ _are_items_duplicate(ItemAt(o), ItemAt(h))

-----------------------------------------------------------------------------
(* C18 *)

\* the occurrence duplicates an occurrence kept before it
DuplicatesKept(o) ==
    \E h \in Occurrences :
        Before(h, o) /\ Kept(h) /\ _are_items_duplicate(ItemAt(o), ItemAt(h))

\* C18: once the core has returned, a validated item is missing from the
\* output exactly when it duplicates an item kept before it in scan order
\* (so an item that matches no kept item is kept, on its own page: each
\* output page holds as many items as its page has kept occurrences), and
\* seen_items holds the kept items and no other, in output order.
C18_RemovedOnlyAsDuplicateOfKept ==
    Returned =>
        /\ \A o \in Occurrences : Kept(o) <=> ~DuplicatesKept(o)
        /\ \A p \in 1..Len(validated_pages) :
               Len(clean_data[p].bill_items)
                   = Cardinality({o \in Occurrences : o[1] = p /\ Kept(o)})
        /\ Len(seen_items) = Len(AllItems(clean_data))
        /\ \A k \in 1..Len(seen_items) :
               /\ seen_items[k].item_name = AllItems(clean_data)[k].item_name
               /\ seen_items[k].item_amount = AllItems(clean_data)[k].item_amount

\* an item that matches an item discarded before it, and was kept
C18_Witness ==
    /\ Returned
    /\ \E o \in Occurrences : \E d \in Occurrences :
           /\ Before(d, o)
           /\ ~Kept(d)
           /\ Kept(o)
           /\ _are_items_duplicate(ItemAt(o), ItemAt(d))

-----------------------------------------------------------------------------
(* C19 *)

\* the name lower-cased and trimmed
NormalizedText(name) == IF name = FiveWordsShouted THEN FiveWords ELSE name

\* the pairs of different names whose word sets share more than 0.8 of
\* their union: five of six words, or all five
SimilarityAbove(name1, name2) ==
    /\ NormalizedText(name1) # NormalizedText(name2)
    /\ {NormalizedText(name1), NormalizedText(name2)}
           \subseteq {FiveWords, SixWords, FiveWordsReordered}

\* the pairs of amounts that are close, the first being the divisor: equal,
\* 0.0 and 0.005, 105.0 to 100.0 (5 / 105) and not 100.0 to 105.0 (5 / 100),
\* -100.0 and -104.0
AmountCloseTo(amount1, amount2) ==
    \/ amount1 = amount2
    \/ {amount1, amount2} = {0, 5}
    \/ amount1 = 105000 /\ amount2 = 100000
    \/ {amount1, amount2} = {0 - 100000, 0 - 104000}

\* C19: for names that differ once lower-cased and trimmed,
\* _are_items_duplicate(item1, item2) is true exactly when the word sets
\* share more than 0.8 of their union and the amounts are close; four words
\* of five (0.8) and an empty name are never enough.
C19_SimilarityAndAmountGate ==
    pc \in {"compared", "deduplicated"}
        /\ NormalizedText(fn_in[1].item_name) # NormalizedText(fn_in[2].item_name) =>
        /\ fn_out = (/\ SimilarityAbove(fn_in[2].item_name, fn_in[1].item_name)
                     /\ AmountCloseTo(fn_in[2].item_amount, fn_in[1].item_amount))
        /\ {fn_in[1].item_name, fn_in[2].item_name} = {FourWords, FiveWords}
               => fn_out = FALSE
        /\ <<>> \in {fn_in[1].item_name, fn_in[2].item_name} => fn_out = FALSE

\* five words of six, at 105.0 against 100.0: duplicates
C19_Witness ==
    /\ pc = "compared"
    /\ fn_in = <<PairItem(FiveWords, 100000), PairItem(SixWords, 105000)>>
    /\ fn_out = TRUE

-----------------------------------------------------------------------------
(* C20 *)

\* C20: the deduplicator removes the later item of two exactly when
\* _are_items_duplicate(later, earlier) is true, so the 5% is taken of the
\* later item's amount: 105.0 after 100.0 is removed, 100.0 after 105.0
\* stays.
C20_ToleranceOfLaterItem ==
    /\ pc = "deduplicated" =>
           /\ deduplicated_pages[1].bill_items = <<fn_in[1]>>
           /\ deduplicated_pages[2].bill_items = IF fn_out THEN <<>> ELSE <<fn_in[2]>>
    /\ pc \in {"compared", "deduplicated"}
           /\ SimilarityAbove(fn_in[1].item_name, fn_in[2].item_name) =>
           /\ fn_in[1].item_amount = 100000 /\ fn_in[2].item_amount = 105000
                  => fn_out = TRUE
           /\ fn_in[1].item_amount = 105000 /\ fn_in[2].item_amount = 100000
                  => fn_out = FALSE

\* 100.0 after 105.0 under the same words: kept
C20_Witness ==
    /\ pc = "deduplicated"
    /\ fn_in = <<PairItem(FiveWords, 105000), PairItem(FiveWordsReordered, 100000)>>
    /\ fn_out = FALSE
    /\ deduplicated_pages[2].bill_items = <<fn_in[2]>>

-----------------------------------------------------------------------------
(* C21 *)

\* the names of the items of a page that a test classifies as no total
NamesPassing(items, IsTotal(_)) ==
    {items[i].item_name.s : i \in {j \in 1..Len(items) :
                                      ~IsTotal(Strip(Lower(items[j].item_name.s)))}}

\* the lower-cased name is shorter than 30 characters, holds some keyword of
\* the list, and is nothing but that keyword and one of "", "-", ":", "="
SomeKeywordLeavesResidue(item_lower) ==
    /\ Len(item_lower) < 30
    /\ \E k \in 1..Len(total_keywords) :
           /\ Contains(item_lower, total_keywords[k])
           /\ Strip(Replace(item_lower, total_keywords[k])) \in {<<>>, <<"-">>, <<":">>, <<"=">>}

\* C21 as stated: the classifier answers by the first keyword of the list
\* that occurs in the name and consults no later keyword.
C21_FirstContainedKeywordOnly ==
    pc = "page_returned" =>
        NamesOf(fn_out.page.bill_items)
            = NamesPassing(fn_in.bill_items.items, FirstContainedKeywordMatches)

\* C21: the classifier answers true exactly when the lower-cased name is
\* shorter than 30 characters and some keyword of the list occurs in it and
\* leaves "", "-", ":" or "=" when removed; a keyword that occurs and leaves
\* more is passed over for the next one ("grand total" is a total though
\* "total" leaves "grand"), and no two keywords are combined ("sum total" is
\* no total).
C21_SomeKeywordDecides ==
    pc = "page_returned" =>
        /\ NamesOf(fn_out.page.bill_items)
               = NamesPassing(fn_in.bill_items.items, SomeKeywordLeavesResidue)
        /\ NamesOf(fn_out.page.bill_items)
               \subseteq {SumTotal, NetAmountDue, TotalKneeReplacement, SixTotals, FiveTotalsColon}

\* "Grand Total" and "sum total" on one page: the second alone is returned
C21_Witness ==
    /\ pc = "page_returned"
    /\ Len(fn_in.bill_items.items) = 2
    /\ fn_in.bill_items.items[1].item_name.s = GrandTotal
    /\ fn_in.bill_items.items[2].item_name.s = SumTotal
    /\ NamesOf(fn_out.page.bill_items) = {SumTotal}

-----------------------------------------------------------------------------
(* C22 *)

\* s is t with some of its elements left out
RECURSIVE IsSubsequence(_, _)
IsSubsequence(s, t) ==
    IF s = <<>> THEN TRUE
    ELSE IF t = <<>> THEN FALSE
    ELSE IF Head(s) = Head(t) THEN IsSubsequence(Tail(s), Tail(t))
    ELSE IsSubsequence(s, Tail(t))

LineItemKeys == {"item_name", "item_amount", "item_rate", "item_quantity"}

\* C22: once the core has returned, every page of the output holds a
\* subsequence of the items of the same page as validated, each of them with
\* its four fields as validated and no page_no; the page_no tag is on the
\* items of seen_items alone, as many as the output holds.
C22_DeduplicationOnlyDiscards ==
    Returned =>
        /\ Len(clean_data) = Len(validated_pages)
        /\ \A p \in 1..Len(clean_data) :
               /\ IsSubsequence(clean_data[p].bill_items, validated_pages[p].bill_items)
               /\ \A k \in 1..Len(clean_data[p].bill_items) :
                      DOMAIN clean_data[p].bill_items[k] = LineItemKeys
        /\ \A k \in 1..Len(seen_items) :
               DOMAIN seen_items[k] = LineItemKeys \cup {"page_no"}
        /\ Len(seen_items) = SumOfLengths(clean_data)

\* a page of three validated items of which the second is discarded: the
\* first and the third are returned, in that order
C22_Witness ==
    /\ Returned
    /\ \E p \in 1..Len(clean_data) :
           /\ Len(validated_pages[p].bill_items) = 3
           /\ clean_data[p].bill_items
                  = <<validated_pages[p].bill_items[1], validated_pages[p].bill_items[3]>>
           /\ validated_pages[p].bill_items[2] # validated_pages[p].bill_items[1]

-----------------------------------------------------------------------------
(* C23 *)

\* C23: for every page list, DataValidator.validate_and_deduplicate returns
\* the page list ValidationEngine.validate_and_deduplicate returned for it
\* (the same pages with the same items in the same order), and raises where
\* the engine raised.
C23_CopiesInterchangeable ==
    /\ pc = "engine_returned" => ~fn_out.raised /\ fn_out.pages = clean_data
    /\ pc = "engine_raised" => fn_out.raised

\* three pages with items on two of them and a duplicate across pages: both
\* copies return the same three pages, one item fewer than they were given
C23_Witness ==
    /\ pc = "engine_returned"
    /\ Len(llm_pages) = 3
    /\ fn_out.pages = clean_data
    /\ SumOfLengths(clean_data) = 2
    /\ SumOfLengths(validated_pages) = 3
    /\ clean_data[1].bill_items # <<>>

-----------------------------------------------------------------------------
(* C24 *)

\* C24: validate_and_deduplicate called on the page list it returned does
\* not raise and returns that page list again: validation changes no page
\* and no item of it, and the deduplication removes no further item.
C24_IdempotentOnOutput ==
    pc = "returned_again" =>
        /\ ~fn_out.raised
        /\ fn_out.validated_pages = clean_data
        /\ fn_out.deduplicated_pages = clean_data

\* a returned list of two items left of three, returned again as it is
C24_Witness ==
    /\ pc = "returned_again"
    /\ SumOfLengths(validated_pages) = 3
    /\ SumOfLengths(clean_data) = 2
    /\ Len(clean_data) >= 2
    /\ fn_out.deduplicated_pages = clean_data

-----------------------------------------------------------------------------
(* C25 *)

\* the words of a lower-cased name
WordsOf(item) == Words(Lower(item.item_name))

\* C25: two items whose lower-cased names differ are reported as duplicates
\* only when their word sets are equal or share 5 words or more, whatever
\* the amounts; names that share 4 words of 5 or 3 of 4 never are, at equal
\* amounts either.
C25_NearMatchNeedsFiveWords ==
    pc \in {"compared", "deduplicated"}
        /\ Lower(fn_in[1].item_name) # Lower(fn_in[2].item_name) /\ fn_out =>
        \/ WordsOf(fn_in[1]) = WordsOf(fn_in[2])
        \/ Cardinality(WordsOf(fn_in[1]) \cap WordsOf(fn_in[2])) >= 5

\* names of 4 and of 5 words at one amount: not duplicates, both kept
C25_Witness ==
    /\ pc = "deduplicated"
    /\ fn_in = <<PairItem(FourWords, 100000), PairItem(FiveWords, 100000)>>
    /\ fn_out = FALSE
    /\ deduplicated_pages[2].bill_items = <<fn_in[2]>>

-----------------------------------------------------------------------------
(* C26 *)

\* the usage the model requests of a call reported, summed over its pages
RECURSIVE OwnUsage(_)
OwnUsage(pages_data) ==
    IF pages_data = <<>> THEN NoUsage
    ELSE UsageAdded(OwnUsage(Tail(pages_data)), Head(pages_data).answer)

\* C26: the token_usage a call of extract_bill_data returns is the sum of
\* the usage its own model requests reported, also when another call runs
\* during its sleep.
C26_OwnUsageReturned ==
    \A r \in Calls :
        extraction[r].pc = "returned" =>
            extraction[r].result.token_usage = OwnUsage(extraction[r].pages_data)

-----------------------------------------------------------------------------
(* C27 *)

\* the model request for the page raised, or its content did not parse to a
\* dict whose bill_items can be walked
PageFailed(answer) ==
    \/ answer.outcome \in {"call_failed", "not_json", "not_a_dict"}
    \/ answer.outcome = "dict" /\ answer.page_data.bill_items = None

\* C27: a call of extract_bill_data holds one page record for every page it
\* has been through and returns one for every page of its input, in input
\* order: for a page whose request or parsing failed the record with the
\* input page number, "Bill Detail" and no items, for any other page the
\* model's page with the model's page number and as many items as it listed.
C27_NoPageLost ==
    \A r \in Calls :
        /\ Len(extraction[r].pagewise_line_items) = extraction[r].idx
        /\ extraction[r].pc = "returned" =>
               /\ extraction[r].result.pagewise_line_items = extraction[r].pagewise_line_items
               /\ Len(extraction[r].result.pagewise_line_items) = Len(extraction[r].pages_data)
        /\ \A i \in 1..Len(extraction[r].pagewise_line_items) :
               IF PageFailed(extraction[r].pages_data[i].answer)
               THEN extraction[r].pagewise_line_items[i]
                        = [t |-> "dict", page_no |-> StrVal(NatText(i)),
                           page_type |-> StrVal(BillDetail),
                           bill_items |-> [t |-> "list", items |-> <<>>]]
               ELSE /\ extraction[r].pagewise_line_items[i].page_no
                           = extraction[r].pages_data[i].answer.page_data.page_no
                    /\ Len(extraction[r].pagewise_line_items[i].bill_items.items)
                           = Len(extraction[r].pages_data[i].answer.page_data.bill_items.items)

\* a call of two pages whose first request raised: it returns the empty
\* page "1" and then the page the model read
C27_Witness ==
    \E r \in Calls :
        /\ extraction[r].pc = "returned"
        /\ Len(extraction[r].pages_data) = 2
        /\ extraction[r].pages_data[1].answer.outcome = "call_failed"
        /\ ~PageFailed(extraction[r].pages_data[2].answer)
        /\ Len(extraction[r].result.pagewise_line_items) = 2
        /\ extraction[r].result.pagewise_line_items[1].bill_items.items = <<>>
        /\ Len(extraction[r].result.pagewise_line_items[2].bill_items.items) = 1

-----------------------------------------------------------------------------
(* C28 *)

\* the places of the items in the pages the model returned
ModelOccurrences ==
    {o \in (1..Len(fn_in)) \X (1..MaxTotalItems) : o[2] <= Len(fn_in[o[1]].bill_items.items)}

\* the model gave the item an amount and a rate that are no numbers
Uncoercible(o) ==
    fn_in[o[1]].bill_items.items[o[2]].item_amount = StrVal(<<"a","b">>)

IsFloat(v) == v.t = "float"

\* every item the validator is handed has three floats, all of them 0.0
\* where the model's item had a field that is no number
PreNormalized ==
    \A o \in ModelOccurrences :
        /\ IsFloat(llm_pages[o[1]].bill_items.items[o[2]].item_amount)
        /\ IsFloat(llm_pages[o[1]].bill_items.items[o[2]].item_rate)
        /\ IsFloat(llm_pages[o[1]].bill_items.items[o[2]].item_quantity)
        /\ Uncoercible(o) =>
               /\ llm_pages[o[1]].bill_items.items[o[2]].item_amount = FloatVal(0)
               /\ llm_pages[o[1]].bill_items.items[o[2]].item_rate = FloatVal(0)
               /\ llm_pages[o[1]].bill_items.items[o[2]].item_quantity = FloatVal(0)

\* the validator kept every item of every page, at the place it had
NoneRejected ==
    /\ Len(validated_pages) = Len(fn_in)
    /\ \A o \in ModelOccurrences :
           /\ Len(validated_pages[o[1]].bill_items) = Len(fn_in[o[1]].bill_items.items)
           /\ Uncoercible(o) => ItemAt(o).item_amount = 0 /\ ItemAt(o).item_quantity = 0

\* the page of the response holds the item as validated
InResponse(o) ==
    \E k \in 1..Len(clean_data[o[1]].bill_items) :
        clean_data[o[1]].bill_items[k] = ItemAt(o)

\* C28 as stated: every item whose numbers the extractor reset is in the
\* response, with amount 0.0.
C28_ResetItemInResponse ==
    /\ PreNormalized
    /\ pc \in {"step4", "step5", "responded"} =>
           /\ NoneRejected
           /\ \A o \in ModelOccurrences : Uncoercible(o) => InResponse(o)

\* C28: in the endpoint every item reaches the validator with three floats,
\* all three 0.0 when one of the model's values was no number, so the
\* validator rejects no item for its numbers; once the core has returned,
\* such an item is in the response with amount 0.0 unless it duplicates an
\* item the response holds before it.
C28_ResetItemReachesDeduplicator ==
    /\ PreNormalized
    /\ pc \in {"step4", "step5", "responded"} =>
           /\ NoneRejected
           /\ \A o \in ModelOccurrences :
                  Uncoercible(o) =>
                      \/ InResponse(o)
                      \/ \E e \in Occurrences :
                             /\ Before(e, o)
                             /\ Kept(e)
                             /\ _are_items_duplicate(ItemAt(o), ItemAt(e))

\* a response whose first item is one the extractor reset, at 0.0
C28_Witness ==
    /\ pc = "responded"
    /\ fn_in # <<>>
    /\ Len(fn_in[1].bill_items.items) >= 1
    /\ Uncoercible(<<1, 1>>)
    /\ clean_data[1].bill_items[1]
           = [item_name |-> IvSet, item_amount |-> 0, item_rate |-> 0, item_quantity |-> 0]
    /\ item_count_total >= 2

====
